---- MODULE Spec2Model ----
(***************************************************************************)
(* Verification model of the response-extraction code of Abacus_SendToLLM. *)
(*                                                                         *)
(* Text is modelled at lexeme level: a Python str is a sequence of tokens, *)
(* each token standing for one fixed piece of text (a marker, a fence, a   *)
(* JSON punctuation character, a JSON string literal, a run of whitespace, *)
(* a word of prose).  Indices are Python indices (0-based) counted in      *)
(* tokens.  str.find, str.rfind, slicing, str.strip, str.replace and       *)
(* json.loads are modelled by what they do on such sequences.              *)
(***************************************************************************)
EXTENDS Integers, Sequences, FiniteSets, TLC

----------------------------------------------------------------------------
(* Tokens *)

START == "JSON_REPORT_START"
END == "JSON_REPORT_END"
\* the fence of three backticks
FENCE == "FENCE3"
JSONWORD == "json"
LBRACE == "{"
RBRACE == "}"
LBRACK == "["
RBRACK == "]"
COLON == ":"
COMMA == ","
TRUELIT == "true"
\* the JSON string literal "timeline_of_events" (quotes included)
TIMELINE == "str:timeline_of_events"
\* the JSON string literal "2024-05-15: Surgery scheduled after patient
\* consent. *(Source: Document 4, Page 579)*" (quotes included)
DATED == "str:2024-05-15: Surgery scheduled ... Page 579)*"
\* the whitespace run of a newline and four spaces
NL4 == "NL4"
\* any other run of whitespace
SP == " "
\* a word of prose
PROSE == "Thanks."

\* the JSON string literals of the keys read by the summary of extract_json.py
CORRELATION_REPORT == "str:correlation_report"
MATCHED_PDF_DOCUMENTS == "str:matched_pdf_documents"
PATIENT_INFORMATION == "str:patient_information"
NAME == "str:name"
DICOM_STUDY == "str:dicom_study"
STUDY_DATE == "str:study_date"

\* whitespace tokens do not join into one another's text
Whitespace == {NL4, SP}
StringTokens ==
    {TIMELINE, DATED, CORRELATION_REPORT, MATCHED_PDF_DOCUMENTS,
     PATIENT_INFORMATION, NAME, DICOM_STUDY, STUDY_DATE}

----------------------------------------------------------------------------
(* Python str operations on token sequences *)

Min(a, b) == IF a < b THEN a ELSE b

\* s[a:b] for 0 <= a, 0 <= b
Slice(s, a, b) == SubSeq(s, a + 1, Min(b, Len(s)))

\* s[a:]
SliceFrom(s, a) == SubSeq(s, a + 1, Len(s))

\* s.startswith(sub, i): sub occurs in s at index i
OccursAt(s, sub, i) ==
    /\ i >= 0
    /\ i + Len(sub) <= Len(s)
    /\ \A k \in 1..Len(sub) : s[i + k] = sub[k]

\* s.find(sub, start): lowest index >= start where sub occurs, else -1
Find(s, sub, start) ==
    LET hits == {i \in start..(Len(s) - Len(sub)) : OccursAt(s, sub, i)}
    IN IF hits = {} THEN -1
       ELSE CHOOSE i \in hits : \A j \in hits : i <= j

\* s.rfind(sub): highest index where sub occurs, else -1
RFind(s, sub) ==
    LET hits == {i \in 0..(Len(s) - Len(sub)) : OccursAt(s, sub, i)}
    IN IF hits = {} THEN -1
       ELSE CHOOSE i \in hits : \A j \in hits : i >= j

\* sub in s
Contains(s, sub) == Find(s, sub, 0) # -1

RECURSIVE LStrip(_)
LStrip(s) ==
    IF s # <<>> /\ Head(s) \in Whitespace THEN LStrip(Tail(s)) ELSE s

RECURSIVE RStrip(_)
RStrip(s) ==
    IF s # <<>> /\ s[Len(s)] \in Whitespace
    THEN RStrip(SubSeq(s, 1, Len(s) - 1))
    ELSE s

\* s.strip()
Strip(s) == RStrip(LStrip(s))

\* s.replace(old, new): every non-overlapping occurrence, left to right
RECURSIVE Replace(_, _, _)
Replace(s, old, new) ==
    LET i == Find(s, old, 0)
    IN IF i = -1 THEN s
       ELSE Slice(s, 0, i) \o new
            \o Replace(SliceFrom(s, i + Len(old)), old, new)

\* s.replace(old, new, 1): the first occurrence only
ReplaceFirst(s, old, new) ==
    LET i == Find(s, old, 0)
    IN IF i = -1 THEN s
       ELSE Slice(s, 0, i) \o new \o SliceFrom(s, i + Len(old))

\* s.rsplit(sep, 1)[0]: the text before the last occurrence of sep
RSplitHead(s, sep) ==
    LET i == RFind(s, sep)
    IN IF i = -1 THEN s ELSE Slice(s, 0, i)

StartsWith(s, sub) == OccursAt(s, sub, 0)
EndsWith(s, sub) == OccursAt(s, sub, Len(s) - Len(sub))

----------------------------------------------------------------------------
(* json.loads *)
(* A parsed document is [kind, val]: an object is a function from its key  *)
(* strings to documents (a dict: the last duplicate key wins, order is     *)
(* irrelevant), an array a sequence of documents.                          *)

None == [kind |-> "None", val |-> <<>>]
JsonTrue == [kind |-> "bool", val |-> <<TRUELIT>>]
JsonStr(tok) == [kind |-> "str", val |-> <<tok>>]
JsonArr(items) == [kind |-> "list", val |-> items]
JsonObj(members) == [kind |-> "dict", val |-> members]
EmptyMembers == [k \in {} |-> None]

\* the outcomes of the decoder: a document ending at index end, or a
\* json.JSONDecodeError with its message and position
Ok(doc, end) ==
    [ok |-> TRUE, doc |-> doc, end |-> end, exc |-> "", msg |-> "", pos |-> 0]
Err(msg, pos) ==
    [ok |-> FALSE, doc |-> None, end |-> 0, exc |-> "JSONDecodeError",
     msg |-> msg, pos |-> pos]

\* s[i:i+1], "" past the end
CharAt(s, i) == IF i >= 0 /\ i < Len(s) THEN s[i + 1] ELSE ""

\* WHITESPACE.match(s, i).end()
RECURSIVE SkipWs(_, _)
SkipWs(s, i) ==
    IF CharAt(s, i) \in Whitespace THEN SkipWs(s, i + 1) ELSE i

RECURSIVE scan_once(_, _)
RECURSIVE JSONObject(_, _)
RECURSIVE ObjectMembers(_, _, _)
RECURSIVE JSONArray(_, _)
RECURSIVE ArrayElements(_, _, _)

\* one JSON value starting at idx
scan_once(s, idx) ==
    LET c == CharAt(s, idx)
    IN IF c \in StringTokens THEN Ok(JsonStr(c), idx + 1)
       ELSE IF c = LBRACE THEN JSONObject(s, idx + 1)
       ELSE IF c = LBRACK THEN JSONArray(s, idx + 1)
       ELSE IF c = TRUELIT THEN Ok(JsonTrue, idx + 1)
       ELSE Err("Expecting value", idx)

\* the members of an object whose "{" ends at index end0
JSONObject(s, end0) ==
    LET end == IF CharAt(s, end0) \in StringTokens THEN end0 ELSE SkipWs(s, end0)
        c == CharAt(s, end)
    IN IF c \in StringTokens THEN ObjectMembers(s, end, EmptyMembers)
       ELSE IF c = RBRACE THEN Ok(JsonObj(EmptyMembers), end + 1)
       ELSE Err("Expecting property name enclosed in double quotes", end)

\* key : value pairs from the key at index i on; acc holds the earlier pairs
ObjectMembers(s, i, acc) ==
    LET key == CharAt(s, i)
        e2 == SkipWs(s, i + 1)
    IN IF CharAt(s, e2) # COLON THEN Err("Expecting ':' delimiter", e2)
       ELSE LET v == scan_once(s, SkipWs(s, e2 + 1))
            IN IF ~v.ok THEN v
               ELSE LET pairs == (key :> v.doc) @@ acc
                        e4 == SkipWs(s, v.end)
                        c == CharAt(s, e4)
                    IN IF c = RBRACE THEN Ok(JsonObj(pairs), e4 + 1)
                       ELSE IF c # COMMA THEN Err("Expecting ',' delimiter", e4)
                       ELSE LET e5 == SkipWs(s, e4 + 1)
                            IN IF CharAt(s, e5) \in StringTokens
                               THEN ObjectMembers(s, e5, pairs)
                               ELSE Err("Expecting property name enclosed in double quotes", e5)

\* the elements of an array whose "[" ends at index end0
JSONArray(s, end0) ==
    LET end == SkipWs(s, end0)
    IN IF CharAt(s, end) = RBRACK THEN Ok(JsonArr(<<>>), end + 1)
       ELSE ArrayElements(s, end, <<>>)

ArrayElements(s, i, acc) ==
    LET v == scan_once(s, i)
    IN IF ~v.ok THEN v
       ELSE LET items == Append(acc, v.doc)
                e == SkipWs(s, v.end)
                c == CharAt(s, e)
            IN IF c = RBRACK THEN Ok(JsonArr(items), e + 1)
               ELSE IF c # COMMA THEN Err("Expecting ',' delimiter", e)
               ELSE ArrayElements(s, SkipWs(s, e + 1), items)

\* json.loads(s): the parsed document, or the JSONDecodeError (msg, pos)
json_loads(s) ==
    LET r == scan_once(s, SkipWs(s, 0))
    IN IF ~r.ok THEN r
       ELSE LET end == SkipWs(s, r.end)
            IN IF end # Len(s) THEN Err("Extra data", end) ELSE r

\* the whitespace json.dump(indent=4) writes before an item at a depth:
\* a newline and four spaces per level
Indent(depth) == IF depth = 1 THEN NL4 ELSE SP

RECURSIVE json_dumps(_, _)
RECURSIVE DumpMembers(_, _, _)
RECURSIVE DumpItems(_, _)

\* json.dump(doc, file, indent=4): the text written, for a document at a
\* nesting depth (the order of the keys of an object is not modelled)
json_dumps(doc, depth) ==
    IF doc.kind = "dict"
    THEN IF DOMAIN doc.val = {} THEN <<LBRACE, RBRACE>>
         ELSE <<LBRACE>> \o DumpMembers(doc.val, DOMAIN doc.val, depth + 1)
              \o <<Indent(depth), RBRACE>>
    ELSE IF doc.kind = "list"
    THEN IF doc.val = <<>> THEN <<LBRACK, RBRACK>>
         ELSE <<LBRACK>> \o DumpItems(doc.val, depth + 1)
              \o <<Indent(depth), RBRACK>>
    ELSE doc.val

DumpMembers(members, keys, depth) ==
    LET k == CHOOSE x \in keys : TRUE
        rest == keys \ {k}
    IN <<Indent(depth), k, COLON, SP>> \o json_dumps(members[k], depth)
       \o (IF rest = {} THEN <<>> ELSE <<COMMA>> \o DumpMembers(members, rest, depth))

DumpItems(items, depth) ==
    <<Indent(depth)>> \o json_dumps(Head(items), depth)
    \o (IF Len(items) = 1 THEN <<>> ELSE <<COMMA>> \o DumpItems(Tail(items), depth))

----------------------------------------------------------------------------
(* Inputs: texts made of at most n pieces *)

RECURSIVE Texts(_, _)
Texts(pieces, n) ==
    IF n = 0 THEN {<<>>}
    ELSE LET shorter == Texts(pieces, n - 1)
         IN shorter \cup {t \o p : t \in shorter, p \in pieces}

\* responses with markers, braces, JSON members, whitespace and prose
MaxParts == 4
ReportPieces ==
    { <<START>>, <<END>>, <<LBRACE>>, <<RBRACE>>, <<TRUELIT>>,
      <<TIMELINE, COLON, TRUELIT>>, <<SP>>, <<PROSE>> }

\* responses with markers, fenced code blocks and whole JSON documents
MaxFencedParts == 5
FencedPieces ==
    { <<START>>, <<END>>, <<FENCE, JSONWORD>>, <<FENCE>>,
      <<LBRACE, RBRACE>>, <<TRUELIT>> }

ReportInputs == Texts(ReportPieces, MaxParts) \cup Texts(FencedPieces, MaxFencedParts)

----------------------------------------------------------------------------
(* State *)

VARIABLES
    pc,             \* position of the running call
    stdout,         \* the lines printed so far
    raised,         \* the exception that escaped the call, "" when none
    \* ResponseProcessor.extract_json_report
    response_text,  \* the argument of extract_json_report
    result,         \* the value returned by extract_json_report
    attempts,       \* the extraction helpers called so far, with their outcome
    \* extract_and_save_json of scripts/extract_json.py and of extract_json.py
    prog,           \* the script that runs
    raw_response_txt, \* the file ./output/raw_response.txt
    cleaned_content,  \* the local cleaned_content
    candidate,      \* cleaned_content as it was extracted, before the fix
    json_data,      \* the outcome of json.loads(cleaned_content)
    report_json,    \* the file ./output/report.json
    ret,            \* the value returned by extract_and_save_json
    \* concurrent calls of extract_json_report on one ResponseProcessor
    workers,        \* per thread: position, argument and returned value
    frames,         \* per call frame: the locals of extract_json_report
    runs,           \* per input: how many calls of it have returned
    seen,           \* the (input, result) pairs of the calls that returned
    \* ResponseProcessor.process_medical_response
    api_response,   \* the argument of process_medical_response
    ai_response,    \* the local ai_response
    results,        \* the dictionary results
    correlation_report_json,  \* the file ./output/correlation_report.json
    correlation_report_txt,   \* the file ./output/correlation_report.txt
    \* AbacusAuthConfig, AbacusAPIClient and SendToLLM.send_json_to_gpt5
    environ,        \* os.environ after load_dotenv()
    auth_config,    \* the fields of the global AbacusAuthConfig
    call,           \* the running call: function, arguments, outcome
    requests_post,  \* the HTTP requests made so far
    \* LLMConfig
    models,         \* LLMConfig.models
    default_model,  \* LLMConfig.default_model
    config_call,    \* the last call on the LLMConfig, with its outcome
    \* LLMChatClient
    conversation_history, \* LLMChatClient.conversation_history
    model_config,   \* LLMChatClient.model_config
    chat_call,      \* the last call on the client, with its outcome
    posted_messages, \* the messages of the request the last call posted
    \* format_page_ranges of generate_correlation_reports.py
    pages,          \* the argument of format_page_ranges
    page_ranges,    \* the string format_page_ranges returned
    \* the medical workflow, in legacy/medical_workflow.py and in SendToLLM.py
    directory,      \* the attachments directory and the prompt file
    workflow_call   \* the last workflow call, with its outcome

reportVars == <<response_text, result, attempts>>
scriptVars ==
    <<prog, raw_response_txt, cleaned_content, candidate, json_data, report_json, ret>>
workerVars == <<workers, frames, runs, seen>>
pipelineVars == <<api_response, ai_response, results, correlation_report_json, correlation_report_txt>>
credVars == <<environ, auth_config, call, requests_post>>
configVars == <<models, default_model, config_call>>
chatVars == <<conversation_history, model_config, chat_call, posted_messages>>
pageVars == <<pages, page_ranges>>
workflowVars == <<directory, workflow_call>>
restVars == <<chatVars, pageVars, workflowVars>>
moreVars == <<workerVars, pipelineVars, credVars, configVars, restVars>>
vars == <<pc, stdout, raised, reportVars, scriptVars, moreVars>>

----------------------------------------------------------------------------
(* legacy/response_processor.py: ResponseProcessor *)

JSON_START_MARKER == <<START>>
JSON_END_MARKER == <<END>>

\* text[:200] of the printed previews
PreviewLen == 200

\* Optional[str]: found = FALSE is None
NoContent == [found |-> FALSE, content |-> <<>>]
Content(c) == [found |-> TRUE, content |-> c]

\* `if json_content:` is false for None and for the empty string
Truthy(c) == c.found /\ c.content # <<>>

\* mutant: the start position is not moved past the start marker
extract_json_with_markers_keeps_marker(text) ==
    LET start_pos == Find(text, JSON_START_MARKER, 0)
        end_pos == Find(text, JSON_END_MARKER, 0)
    IN IF start_pos # -1 /\ end_pos # -1
       THEN Content(Strip(Slice(text, start_pos, end_pos)))
       ELSE NoContent

\* mutant: the end marker is searched from the right
extract_json_with_markers_last_end(text) ==
    LET start_pos == Find(text, JSON_START_MARKER, 0)
        end_pos == RFind(text, JSON_END_MARKER)
    IN IF start_pos # -1 /\ end_pos # -1
       THEN Content(Strip(Slice(text, start_pos + Len(JSON_START_MARKER), end_pos)))
       ELSE NoContent

extract_json_with_markers(text) ==
    LET start_pos == Find(text, JSON_START_MARKER, 0)
        end_pos == Find(text, JSON_END_MARKER, 0)
    IN IF start_pos # -1 /\ end_pos # -1
       THEN Content(Strip(Slice(text, start_pos + Len(JSON_START_MARKER), end_pos)))
       ELSE NoContent

\* mutant: the first "}" ends the candidate
extract_json_fallback_first_close(text) ==
    LET start_pos == Find(text, <<LBRACE>>, 0)
        end_pos == Find(text, <<RBRACE>>, 0) + 1
    IN IF start_pos # -1 /\ end_pos > start_pos
       THEN Content(Slice(text, start_pos, end_pos))
       ELSE NoContent

\* mutant: the last "}" is left out of the candidate
extract_json_fallback_exclusive(text) ==
    LET start_pos == Find(text, <<LBRACE>>, 0)
        end_pos == RFind(text, <<RBRACE>>)
    IN IF start_pos # -1 /\ end_pos > start_pos
       THEN Content(Slice(text, start_pos, end_pos))
       ELSE NoContent

\* mutant: without a brace candidate the whole text is the candidate
extract_json_fallback_whole_text(text) ==
    LET start_pos == Find(text, <<LBRACE>>, 0)
        end_pos == RFind(text, <<RBRACE>>) + 1
    IN IF start_pos # -1 /\ end_pos > start_pos
       THEN Content(Slice(text, start_pos, end_pos))
       ELSE Content(text)

extract_json_fallback(text) ==
    LET start_pos == Find(text, <<LBRACE>>, 0)
        end_pos == RFind(text, <<RBRACE>>) + 1
    IN IF start_pos # -1 /\ end_pos > start_pos
       THEN Content(Slice(text, start_pos, end_pos))
       ELSE NoContent

\* str(e) of a JSONDecodeError: its message and position
ErrorString(r) == <<r.msg, r.pos>>
NoError == <<"", 0>>

\* mutant: the except clause names another exception class
ParseCaughtKeyError == {"KeyError"}

\* the exception classes of the except clause of validate_and_parse_json
ParseCaught == {"JSONDecodeError"}

\* (is_valid, parsed_data, error_message), or the exception that escapes
validate_and_parse_json(json_content) ==
    LET r == json_loads(json_content)
    IN IF r.exc = ""
       THEN [raised |-> "", is_valid |-> TRUE, data |-> r.doc, error |-> NoError]
       ELSE IF r.exc \in ParseCaught
       THEN [raised |-> "", is_valid |-> FALSE, data |-> None, error |-> ErrorString(r)]
       ELSE [raised |-> r.exc, is_valid |-> FALSE, data |-> None, error |-> NoError]

\* the returned tuple (success, json_data, method_used)
Returned(success, data, method) ==
    [success |-> success, data |-> data, method |-> method]
NotReturned == Returned(FALSE, None, "")

Attempt(step, text, c) ==
    [step |-> step, text |-> text, found |-> c.found, content |-> c.content]

\* mutant: the preview of the candidate is not printed
FailureLines_no_preview(label, error, json_content) ==
    << <<label, error>> >>

\* the two lines printed when a candidate does not parse
FailureLines(label, error, json_content) ==
    << <<label, error>>,
       <<"JSON content preview", Slice(json_content, 0, PreviewLen)>> >>

\* extract_json_report, lines 102-110: marker-based extraction
TryMarkers ==
    /\ pc = "markers"
    /\ LET c == extract_json_with_markers(response_text)
           v == validate_and_parse_json(c.content)
       IN /\ attempts' = Append(attempts, Attempt("markers", response_text, c))
          /\ IF ~Truthy(c)
             THEN pc' = "fallback" /\ UNCHANGED <<result, stdout, raised>>
             ELSE IF v.raised # ""
             THEN pc' = "raised" /\ raised' = v.raised /\ UNCHANGED <<result, stdout>>
             ELSE IF v.is_valid
             THEN /\ pc' = "done"
                  /\ result' = Returned(TRUE, v.data, "markers")
                  /\ UNCHANGED <<stdout, raised>>
             ELSE /\ pc' = "fallback"
                  /\ stdout' = stdout \o FailureLines("JSON parsing failed with markers",
                                                      v.error, c.content)
                  /\ UNCHANGED <<result, raised>>
    /\ UNCHANGED <<response_text, scriptVars, moreVars>>

\* extract_json_report, lines 112-122: brace-based extraction
TryFallback ==
    /\ pc = "fallback"
    /\ LET c == extract_json_fallback(response_text)
           v == validate_and_parse_json(c.content)
       IN /\ attempts' = Append(attempts, Attempt("fallback", response_text, c))
          /\ IF ~Truthy(c)
             THEN /\ pc' = "done"
                  /\ result' = Returned(FALSE, None, "none")
                  /\ UNCHANGED <<stdout, raised>>
             ELSE IF v.raised # ""
             THEN pc' = "raised" /\ raised' = v.raised /\ UNCHANGED <<result, stdout>>
             ELSE IF v.is_valid
             THEN /\ pc' = "done"
                  /\ result' = Returned(TRUE, v.data, "fallback")
                  /\ UNCHANGED <<stdout, raised>>
             ELSE /\ pc' = "done"
                  /\ result' = Returned(FALSE, None, "none")
                  /\ stdout' = stdout \o FailureLines("Fallback JSON parsing failed",
                                                      v.error, c.content)
                  /\ UNCHANGED raised
    /\ UNCHANGED <<response_text, scriptVars, moreVars>>

\* a file that does not exist, and a file with its content
NoFile == [exists |-> FALSE, content |-> <<>>]
File(content) == [exists |-> TRUE, content |-> content]

\* no script runs
ScriptIdle ==
    /\ prog = ""
    /\ raw_response_txt = NoFile
    /\ cleaned_content = <<>>
    /\ candidate = NoContent
    /\ json_data = Err("", 0)
    /\ report_json = NoFile
    /\ ret = "running"

\* no thread runs
WorkerIdle ==
    /\ workers = <<>>
    /\ frames = <<>>
    /\ runs = <<>>
    /\ seen = {}

\* no call of process_medical_response runs
PipelineIdle ==
    /\ api_response = None
    /\ ai_response = <<>>
    /\ results = <<>>
    /\ correlation_report_json = NoFile
    /\ correlation_report_txt = NoFile

\* no credentials are looked up
CredIdle ==
    /\ environ = <<>>
    /\ auth_config = <<>>
    /\ call = <<>>
    /\ requests_post = <<>>

\* no LLMConfig exists
ConfigIdle ==
    /\ models = <<>>
    /\ default_model = ""
    /\ config_call = <<>>

\* no LLMChatClient exists
ChatIdle ==
    /\ conversation_history = <<>>
    /\ model_config = <<>>
    /\ chat_call = <<>>
    /\ posted_messages = <<>>

\* format_page_ranges is not called
PageIdle ==
    /\ pages = <<>>
    /\ page_ranges = <<>>

\* no workflow runs
WorkflowIdle ==
    /\ directory = <<>>
    /\ workflow_call = <<>>

RestIdle == ChatIdle /\ PageIdle /\ WorkflowIdle

MoreIdle == WorkerIdle /\ PipelineIdle /\ CredIdle /\ ConfigIdle /\ RestIdle

\* no call of extract_json_report runs
ReportIdle ==
    /\ response_text = <<>>
    /\ result = NotReturned
    /\ attempts = <<>>

Init ==
    /\ response_text \in ReportInputs
    /\ pc = "markers"
    /\ result = NotReturned
    /\ attempts = <<>>
    /\ stdout = <<>>
    /\ raised = ""
    /\ ScriptIdle
    /\ MoreIdle

Next == TryMarkers \/ TryFallback

Spec == Init /\ [][Next]_vars

----------------------------------------------------------------------------
(* scripts/extract_json.py and extract_json.py: extract_and_save_json *)

SCRIPTS_EXTRACT_JSON == "scripts/extract_json.py"
ROOT_EXTRACT_JSON == "extract_json.py"

\* raw responses with fences, the timeline object, arrays and the dated
\* string, with and without the text of the known defect
MaxScriptParts == 4
ScriptPieces ==
    { <<LBRACE, TIMELINE, COLON>>, <<LBRACK>>, <<DATED, NL4, RBRACE>>,
      <<DATED>>, <<RBRACE>>, <<RBRACK>>, <<FENCE, JSONWORD>>, <<FENCE>> }
ScriptInputs == Texts(ScriptPieces, MaxScriptParts)

json_start_marker == <<FENCE, JSONWORD>>
json_end_marker == <<FENCE>>

\* the text of the known defect and its replacement
KnownDefect == <<DATED, NL4, RBRACE>>
KnownDefectFixed == <<DATED, NL4, RBRACK>>

\* mutant: without a json fence, a bare fence is sliced the same way
find_json_bare_fence(content) ==
    LET marker == IF Find(content, json_start_marker, 0) # -1
                  THEN json_start_marker ELSE json_end_marker
        json_start == Find(content, marker, 0)
        after == json_start + Len(marker)
        json_end == Find(content, json_end_marker, after)
    IN IF json_start # -1
       THEN IF json_end # -1
            THEN Strip(Slice(content, after, json_end))
            ELSE Strip(SliceFrom(content, after))
       ELSE content

\* scripts/extract_json.py, lines 22-44: the text between the json fence
\* and the next fence, else the text from the first "{" to the last "}"
find_json(content) ==
    LET json_start == Find(content, json_start_marker, 0)
        after == json_start + Len(json_start_marker)
        json_end == Find(content, json_end_marker, after)
        brace_start == Find(content, <<LBRACE>>, 0)
        brace_end == RFind(content, <<RBRACE>>)
    IN IF json_start # -1
       THEN IF json_end # -1
            THEN Strip(Slice(content, after, json_end))
            ELSE Strip(SliceFrom(content, after))
       ELSE IF brace_start # -1 /\ brace_end # -1 /\ brace_end > brace_start
            THEN Strip(Slice(content, brace_start, brace_end + 1))
            ELSE content

\* extract_json.py, lines 22-28: a leading json fence and a trailing fence
\* are removed
strip_fences(content) ==
    LET opened == IF StartsWith(content, json_start_marker)
                  THEN ReplaceFirst(content, json_start_marker, <<>>)
                  ELSE content
        closed == IF EndsWith(opened, json_end_marker)
                  THEN RSplitHead(opened, json_end_marker)
                  ELSE opened
    IN Strip(closed)

\* mutant: the candidate is parsed without the repair
fix_known_error_skipped(content) == content

\* scripts/extract_json.py, lines 46-52
fix_known_error(content) ==
    IF Contains(content, <<TIMELINE>>)
    THEN Replace(content, KnownDefect, KnownDefectFixed)
    ELSE content

\* extract_json.py, lines 30-34
fix_syntax_error(content) == Replace(content, KnownDefect, KnownDefectFixed)

\* obj[key] of Python: the item, or the exception raised
GetItem(obj, key) ==
    IF obj.exc # "" THEN obj
    ELSE IF obj.doc.kind # "dict"
    THEN [exc |-> "TypeError", doc |-> None]
    ELSE IF key \in DOMAIN obj.doc.val
    THEN [exc |-> "", doc |-> obj.doc.val[key]]
    ELSE [exc |-> "KeyError", doc |-> None]

\* len(obj) of Python: "" when it is defined, else the exception raised
LenExc(obj) ==
    IF obj.exc # "" THEN obj.exc
    ELSE IF obj.doc.kind \in {"dict", "list", "str"} THEN "" ELSE "TypeError"

\* extract_json.py, lines 48-50: the exception raised by the summary
\* prints, "" when they all succeed
root_summary_exc(data) ==
    LET top == GetItem([exc |-> "", doc |-> data], CORRELATION_REPORT)
        docs == LenExc(GetItem(top, MATCHED_PDF_DOCUMENTS))
        patient == GetItem(GetItem(top, PATIENT_INFORMATION), NAME)
        study == GetItem(GetItem(top, DICOM_STUDY), STUDY_DATE)
    IN IF docs # "" THEN docs
       ELSE IF patient.exc # "" THEN patient.exc
       ELSE study.exc

\* lines 11-20 of both scripts: read the raw response, strip it
ReadRawResponse ==
    /\ pc = "read"
    /\ IF raw_response_txt.exists
       THEN /\ cleaned_content' = Strip(raw_response_txt.content)
            /\ pc' = "extract"
            /\ UNCHANGED <<stdout, ret>>
       ELSE /\ stdout' = Append(stdout, <<"Error: ./output/raw_response.txt not found", <<>>>>)
            /\ ret' = "False"
            /\ pc' = "returned"
            /\ UNCHANGED cleaned_content
    /\ UNCHANGED <<raised, reportVars, moreVars, prog, raw_response_txt, candidate, json_data, report_json>>

\* scripts/extract_json.py, lines 22-44
FindJson ==
    /\ pc = "extract"
    /\ prog = SCRIPTS_EXTRACT_JSON
    /\ cleaned_content' = find_json(cleaned_content)
    /\ candidate' = Content(cleaned_content')
    /\ pc' = "fix"
    /\ UNCHANGED <<stdout, raised, reportVars, moreVars, prog, raw_response_txt, json_data, report_json, ret>>

\* extract_json.py, lines 22-28
StripFences ==
    /\ pc = "extract"
    /\ prog = ROOT_EXTRACT_JSON
    /\ cleaned_content' = strip_fences(cleaned_content)
    /\ candidate' = Content(cleaned_content')
    /\ pc' = "fix"
    /\ UNCHANGED <<stdout, raised, reportVars, moreVars, prog, raw_response_txt, json_data, report_json, ret>>

\* scripts/extract_json.py, lines 46-52
FixKnownError ==
    /\ pc = "fix"
    /\ prog = SCRIPTS_EXTRACT_JSON
    /\ cleaned_content' = fix_known_error(cleaned_content)
    /\ pc' = "parse"
    /\ UNCHANGED <<stdout, raised, reportVars, moreVars, prog, raw_response_txt, candidate, json_data, report_json, ret>>

\* extract_json.py, lines 30-34
FixSyntaxError ==
    /\ pc = "fix"
    /\ prog = ROOT_EXTRACT_JSON
    /\ cleaned_content' = fix_syntax_error(cleaned_content)
    /\ pc' = "parse"
    /\ UNCHANGED <<stdout, raised, reportVars, moreVars, prog, raw_response_txt, candidate, json_data, report_json, ret>>

\* scripts/extract_json.py, lines 54-106, and extract_json.py, lines 36-62:
\* parse, write report.json, print the summary, return
ParseAndSave ==
    /\ pc = "parse"
    /\ json_data' = json_loads(cleaned_content)
    /\ pc' = "returned"
    /\ IF ~json_data'.ok
       THEN /\ stdout' = stdout \o << <<"JSON parsing error", ErrorString(json_data')>>,
                                      <<"Raw content preview", cleaned_content>> >>
            /\ ret' = "False"
            /\ UNCHANGED report_json
       ELSE /\ report_json' = File(json_dumps(json_data'.doc, 0))
            /\ IF prog = SCRIPTS_EXTRACT_JSON
               THEN \* the summary is printed inside its own try block
                    /\ stdout' = Append(stdout, <<"Successfully extracted and saved JSON", <<>>>>)
                    /\ ret' = "True"
               ELSE IF root_summary_exc(json_data'.doc) = ""
               THEN /\ stdout' = Append(stdout, <<"Successfully extracted and saved JSON", <<>>>>)
                    /\ ret' = "True"
               ELSE /\ stdout' = stdout \o
                        << <<"Successfully extracted and saved JSON", <<>>>>,
                           <<"Unexpected error", <<root_summary_exc(json_data'.doc)>>>> >>
                    /\ ret' = "False"
    /\ UNCHANGED <<raised, reportVars, moreVars, prog, raw_response_txt, cleaned_content, candidate>>

ScriptInit ==
    /\ prog \in {SCRIPTS_EXTRACT_JSON, ROOT_EXTRACT_JSON}
    /\ raw_response_txt \in {NoFile} \cup {File(t) : t \in ScriptInputs}
    /\ pc = "read"
    /\ cleaned_content = <<>>
    /\ candidate = NoContent
    /\ json_data = Err("", 0)
    /\ report_json = NoFile
    /\ ret = "running"
    /\ stdout = <<>>
    /\ raised = ""
    /\ ReportIdle
    /\ MoreIdle

ScriptNext ==
    \/ ReadRawResponse
    \/ FindJson
    \/ StripFences
    \/ FixKnownError
    \/ FixSyntaxError
    \/ ParseAndSave

ScriptSpec == ScriptInit /\ [][ScriptNext]_vars

----------------------------------------------------------------------------
(* Vocabulary of the claims, stated on the text itself *)

Positions(text, tok) == {i \in 1..Len(text) : text[i] = tok}
Has(text, tok) == Positions(text, tok) # {}
First(text, tok) ==
    CHOOSE i \in Positions(text, tok) : \A j \in Positions(text, tok) : i <= j
Last(text, tok) ==
    CHOOSE i \in Positions(text, tok) : \A j \in Positions(text, tok) : i >= j

IsValidJson(s) == json_loads(s).ok
DocOf(s) == json_loads(s).doc

NoMarkers(text) == ~Has(text, START) /\ ~Has(text, END)
NoFences(text) == ~Has(text, FENCE)

\* the trimmed text strictly between the start marker and the end marker
BetweenMarkers(text) ==
    Strip(SubSeq(text, First(text, START) + 1, First(text, END) - 1))

\* the text holds a valid JSON document between the markers
MarkerDelimited(text) ==
    /\ Has(text, START) /\ Has(text, END)
    /\ First(text, START) < First(text, END)
    /\ IsValidJson(BetweenMarkers(text))

\* the trimmed content of the fenced block opened by the fence at position p
\* (three backticks, with or without the word json): up to the next fence, or
\* to the end of the text when the block is not closed
FenceContent(text, p) ==
    LET open == IF p < Len(text) /\ text[p + 1] = JSONWORD THEN p + 1 ELSE p
        closers == {q \in Positions(text, FENCE) : q > open}
        close == IF closers = {} THEN Len(text) + 1
                 ELSE CHOOSE q \in closers : \A r \in closers : q <= r
    IN Strip(SubSeq(text, open + 1, close - 1))

\* the documents of the fenced blocks whose content is valid JSON
FencedDocs(text) ==
    {DocOf(FenceContent(text, p)) :
        p \in {q \in Positions(text, FENCE) : IsValidJson(FenceContent(text, q))}}

\* a "}" occurs strictly after the first "{"
BraceCandidateExists(text) ==
    /\ Has(text, LBRACE) /\ Has(text, RBRACE)
    /\ Last(text, RBRACE) > First(text, LBRACE)

\* the inclusive substring from the first "{" to the last "}"
BraceSubstring(text) == SubSeq(text, First(text, LBRACE), Last(text, RBRACE))

\* the call of the brace-based helper recorded in attempts
FallbackAttempts == {i \in 1..Len(attempts) : attempts[i].step = "fallback"}

----------------------------------------------------------------------------
(* C1-C7: extract_json_report *)

\* C1 (marker priority): when the text holds a valid JSON document between
\* JSON_REPORT_START and JSON_REPORT_END and a different valid JSON document
\* in a fenced code block, the finished extraction has succeeded, returns the
\* marker-delimited document and reports the method markers.
C1_MarkerPriority ==
    (/\ pc \in {"done", "raised"}
     /\ MarkerDelimited(response_text)
     /\ \E d \in FencedDocs(response_text) : d # DocOf(BetweenMarkers(response_text)))
    => /\ pc = "done"
       /\ result.success
       /\ result.data = DocOf(BetweenMarkers(response_text))
       /\ result.method = "markers"

C1_Witness ==
    /\ pc = "done"
    /\ MarkerDelimited(response_text)
    /\ \E d \in FencedDocs(response_text) : d # DocOf(BetweenMarkers(response_text))
    /\ Has(response_text, JSONWORD)
    /\ result.method = "markers"
    /\ result.data.kind = "dict"

C3_BraceScan ==
    (/\ pc \in {"done", "raised"}
     /\ NoMarkers(response_text)
     /\ NoFences(response_text)
     /\ BraceCandidateExists(response_text))
    => /\ pc = "done"
       /\ FallbackAttempts # {}
       /\ \A i \in FallbackAttempts :
             /\ attempts[i].found
             /\ attempts[i].content = BraceSubstring(response_text)
       /\ IsValidJson(BraceSubstring(response_text))
             => result = Returned(TRUE, DocOf(BraceSubstring(response_text)), "fallback")

\* a brace-scan success on a substring that is shorter than the text
C3_Witness ==
    /\ pc = "done"
    /\ NoMarkers(response_text)
    /\ NoFences(response_text)
    /\ BraceCandidateExists(response_text)
    /\ result.method = "fallback"
    /\ result.data # JsonObj(EmptyMembers)
    /\ Len(BraceSubstring(response_text)) < Len(response_text)

\* the end marker is absent, or its occurrence lies before the start marker
EndMarkerMisplaced(text) ==
    \/ ~Has(text, END)
    \/ Has(text, START) /\ First(text, END) < First(text, START)

\* C4 (marker edge case): when JSON_REPORT_END is absent or occurs before
\* JSON_REPORT_START, the finished extraction never reports the method
\* markers, and the brace helper has been called on the whole text.
C4_MarkerEdgeCase ==
    (pc \in {"done", "raised"} /\ EndMarkerMisplaced(response_text))
    => /\ pc = "done"
       /\ result.method # "markers"
       /\ \E i \in FallbackAttempts : attempts[i].text = response_text

\* the end marker precedes the start marker, a valid document follows the
\* start marker, and the brace scan returns it
C4_Witness ==
    /\ pc = "done"
    /\ Has(response_text, START) /\ Has(response_text, END)
    /\ First(response_text, END) < First(response_text, START)
    /\ Last(response_text, END) > First(response_text, START)
    /\ result.success
    /\ result.method = "fallback"

\* C5 (no candidate): a text with no markers and no fences in which no "}"
\* occurs after the first "{" yields succeeded = false with method none.
C5_NoCandidate ==
    (/\ pc \in {"done", "raised"}
     /\ NoMarkers(response_text)
     /\ NoFences(response_text)
     /\ ~BraceCandidateExists(response_text))
    => /\ pc = "done"
       /\ result = Returned(FALSE, None, "none")

\* the text has both braces, every "}" before the first "{", and the text
\* is made of valid JSON besides
C5_Witness ==
    /\ pc = "done"
    /\ NoMarkers(response_text)
    /\ NoFences(response_text)
    /\ Has(response_text, LBRACE) /\ Has(response_text, RBRACE)
    /\ Last(response_text, RBRACE) < First(response_text, LBRACE)
    /\ result = Returned(FALSE, None, "none")

C5_WitnessValidWholeText ==
    /\ pc = "done"
    /\ ~Has(response_text, LBRACE)
    /\ IsValidJson(response_text)
    /\ result = Returned(FALSE, None, "none")

MarkerTried(text) ==
    /\ Has(text, START) /\ Has(text, END)
    /\ First(text, START) < First(text, END)
    /\ BetweenMarkers(text) # <<>>

\* the error of the last candidate tried, and the best candidate tried
LastParseError(text) ==
    IF BraceCandidateExists(text)
    THEN ErrorString(json_loads(BraceSubstring(text)))
    ELSE ErrorString(json_loads(BetweenMarkers(text)))
BestCandidate(text) ==
    IF MarkerTried(text) THEN BetweenMarkers(text) ELSE BraceSubstring(text)

FailureOutput(text) ==
    (IF MarkerTried(text)
     THEN << <<"JSON parsing failed with markers",
               ErrorString(json_loads(BetweenMarkers(text)))>>,
             <<"JSON content preview",
               Slice(BetweenMarkers(text), 0, PreviewLen)>> >>
     ELSE <<>>)
    \o (IF BraceCandidateExists(text)
        THEN << <<"Fallback JSON parsing failed",
                  ErrorString(json_loads(BraceSubstring(text)))>>,
                <<"JSON content preview",
                  Slice(BraceSubstring(text), 0, PreviewLen)>> >>
        ELSE <<>>)

----------------------------------------------------------------------------
(* C8-C10: extract_and_save_json *)

\* positions of the text of the known defect in a candidate: the index of
\* its closing "}"
DefectCloses(c) ==
    {i \in 3..Len(c) : c[i - 2] = DATED /\ c[i - 1] = NL4 /\ c[i] = RBRACE}

\* C8 (repair is a last resort): a candidate that is valid JSON as extracted
\* is handed to the parser unmodified, parses to its own document and is
\* saved, also when it contains the text of the known defect.
C8_RepairOnlyAfterFailure ==
    (/\ pc = "returned"
     /\ candidate.found
     /\ IsValidJson(candidate.content))
    => /\ cleaned_content = candidate.content
       /\ json_data.ok
       /\ json_data.doc = DocOf(candidate.content)
       /\ report_json.exists

\* the document observed with the known defect: the array of
\* timeline_of_events closed by "}" instead of "]"
KnownDefectCandidate ==
    <<LBRACE, TIMELINE, COLON, LBRACK, DATED, NL4, RBRACE, RBRACE>>
KnownDefectDocument == JsonObj(TIMELINE :> JsonArr(<<JsonStr(DATED)>>))

\* C9 (repair scope): the text handed to the parser differs from the
\* candidate only where the candidate holds the closing "}" of the text of
\* the known defect, which becomes "]"; the known-defect candidate then
\* parses and is saved; a candidate without that text is parsed exactly as
\* extracted and, when malformed, reported as a failure with nothing saved.
C9_RepairScope ==
    (pc \in {"parse", "returned"})
    => /\ Len(cleaned_content) = Len(candidate.content)
       /\ \A i \in 1..Len(cleaned_content) :
             cleaned_content[i] # candidate.content[i]
             => /\ i \in DefectCloses(candidate.content)
                /\ cleaned_content[i] = RBRACK
       /\ (pc = "returned" /\ candidate.content = KnownDefectCandidate)
             => /\ json_data.ok
                /\ json_data.doc = KnownDefectDocument
                /\ report_json.exists
                /\ IsValidJson(report_json.content)
                /\ DocOf(report_json.content) = KnownDefectDocument
       /\ DefectCloses(candidate.content) = {}
             => /\ cleaned_content = candidate.content
                /\ (pc = "returned" /\ ~IsValidJson(candidate.content))
                      => /\ ret = "False"
                         /\ ~json_data.ok
                         /\ ~report_json.exists

\* the known-defect candidate was repaired, parsed and saved
C9_Witness ==
    /\ pc = "returned"
    /\ candidate.content = KnownDefectCandidate
    /\ cleaned_content # candidate.content
    /\ json_data.ok
    /\ report_json.exists

\* the stripped raw response, the text the scripts search
RawText == Strip(raw_response_txt.content)

HasJsonFence(text) ==
    \E i \in 1..(Len(text) - 1) : text[i] = FENCE /\ text[i + 1] = JSONWORD

\* a raw response with a bare fence and no json fence has been sliced
BareFenceCase ==
    /\ pc \in {"fix", "parse", "returned"}
    /\ candidate.found
    /\ ~HasJsonFence(RawText)
    /\ Has(RawText, FENCE)

----------------------------------------------------------------------------
(* C11: the json fence of scripts/extract_json.py *)

\* position of the first json fence of a text, 0-based
FirstJsonFence(text) ==
    CHOOSE i \in 0..(Len(text) - 2) :
        /\ text[i + 1] = FENCE /\ text[i + 2] = JSONWORD
        /\ \A j \in 0..(i - 1) : ~(text[j + 1] = FENCE /\ text[j + 2] = JSONWORD)

\* the trimmed text after the first json fence, up to the first fence that
\* follows it or to the end of the text
AfterJsonFence(text) ==
    LET open == FirstJsonFence(text) + 2
        closes == {j \in open..(Len(text) - 1) : text[j + 1] = FENCE}
    IN IF closes = {}
       THEN Strip(SubSeq(text, open + 1, Len(text)))
       ELSE Strip(SubSeq(text, open + 1,
                         CHOOSE j \in closes : \A k \in closes : j <= k))

\* C11 (unclosed fence): with a json fence in the raw response,
\* scripts/extract_json.py takes as candidate the trimmed text after the
\* opener up to the first fence that follows, or the trimmed remainder when
\* no fence follows, and a candidate that is valid JSON is extracted
\* successfully: parsed to its document, saved, and True returned.
C11_UnclosedFence ==
    (/\ prog = SCRIPTS_EXTRACT_JSON
     /\ pc = "returned"
     /\ raw_response_txt.exists
     /\ HasJsonFence(RawText))
    => /\ candidate.content = AfterJsonFence(RawText)
       /\ IsValidJson(candidate.content)
             => /\ json_data.ok
                /\ json_data.doc = DocOf(candidate.content)
                /\ report_json.exists
                /\ ret = "True"

\* the slicing half of C11 taken alone
C11_FenceSlicing ==
    (/\ prog = SCRIPTS_EXTRACT_JSON
     /\ pc = "returned"
     /\ raw_response_txt.exists
     /\ HasJsonFence(RawText))
    => candidate.content = AfterJsonFence(RawText)

\* an unclosed json fence whose remainder is valid JSON and is rejected
C11_RejectedRemainder ==
    /\ prog = SCRIPTS_EXTRACT_JSON
    /\ pc = "returned"
    /\ HasJsonFence(RawText)
    /\ Cardinality(Positions(RawText, FENCE)) = 1
    /\ IsValidJson(AfterJsonFence(RawText))
    /\ ret = "False"

----------------------------------------------------------------------------
(* C13: the shape of the result of extract_json_report *)

\* C13 (result shape): in every result the document is present exactly when
\* the extraction succeeded, and a present document is a JSON object, never
\* an array, a string or a boolean, whichever step produced it.
C13_ResultShape ==
    (pc = "done")
    => /\ (result.data # None) <=> result.success
       /\ (result.data # None) => result.data.kind = "dict"

\* the marker step returned a document that is not an object
C13_NonObjectDocument ==
    /\ pc = "done"
    /\ result.success
    /\ result.method = "markers"
    /\ result.data.kind # "dict"

\* the half of C13 that holds: the brace scan only returns objects
C13_FallbackReturnsObject ==
    (pc = "done" /\ result.method = "fallback")
    => result.success /\ result.data.kind = "dict"

----------------------------------------------------------------------------
(* C16: what extract_and_save_json returns *)

\* C16 (no semantic validation): extract_and_save_json returns True exactly
\* when it parsed the candidate and wrote the document to report.json,
\* whichever keys the document has.
C16_NoSemanticValidation ==
    (pc = "returned")
    => (ret = "True"
        <=> /\ json_data.ok
            /\ report_json = File(json_dumps(json_data.doc, 0)))

\* extract_json.py saved a document without correlation_report and
\* returned False
C16_SavedButFalse ==
    /\ pc = "returned"
    /\ prog = ROOT_EXTRACT_JSON
    /\ json_data.ok
    /\ json_data.doc.kind = "dict"
    /\ CORRELATION_REPORT \notin DOMAIN json_data.doc.val
    /\ report_json.exists
    /\ ret = "False"

\* the half of C16 that holds: scripts/extract_json.py
C16_ScriptsVariant ==
    (pc = "returned" /\ prog = SCRIPTS_EXTRACT_JSON)
    => (ret = "True"
        <=> /\ json_data.ok
            /\ report_json = File(json_dumps(json_data.doc, 0)))

----------------------------------------------------------------------------
(* Calls of extract_json_report from several threads on one ResponseProcessor *)

Workers == {1, 2}
MaxCalls == 4

\* responses with a different result each: marker document, brace document
\* after a failed marker slice, brace document, no document
WorkerInputs ==
    { <<START, LBRACE, RBRACE, END>>,
      <<START, RBRACE, END, LBRACE, TIMELINE, COLON, TRUELIT, RBRACE>>,
      <<LBRACE, TIMELINE, COLON, LBRACK, RBRACK, RBRACE>>,
      <<LBRACE, PROSE>> }

\* mutant: the argument is kept in one place shared by all calls
SharedFrame(t) == 1

\* the frame that holds the locals of the call of thread t: its own
Frame(t) == t

\* lines 102-110 on the locals of a frame: the next position, the value
\* returned if any, and the lines printed
markers_step(text) ==
    LET c == extract_json_with_markers(text)
        v == validate_and_parse_json(c.content)
    IN IF ~Truthy(c)
       THEN [pc |-> "fallback", result |-> NotReturned, lines |-> <<>>]
       ELSE IF v.raised # ""
       THEN [pc |-> "raised", result |-> NotReturned, lines |-> <<>>]
       ELSE IF v.is_valid
       THEN [pc |-> "done", result |-> Returned(TRUE, v.data, "markers"),
             lines |-> <<>>]
       ELSE [pc |-> "fallback", result |-> NotReturned,
             lines |-> FailureLines("JSON parsing failed with markers",
                                    v.error, c.content)]

\* mutant: the result of an input already extracted is taken from a cache of
\* the processor and says so
fallback_step_cached(text) ==
    IF \E p \in seen : p[1] = text
    THEN LET p == CHOOSE p \in seen : p[1] = text
         IN [pc |-> "done", result |-> [p[2] EXCEPT !.method = "cached"],
             lines |-> <<>>]
    ELSE [pc |-> "done", result |-> Returned(FALSE, None, "none"),
          lines |-> <<>>]

\* lines 112-122 on the locals of a frame
fallback_step(text) ==
    LET c == extract_json_fallback(text)
        v == validate_and_parse_json(c.content)
    IN IF ~Truthy(c)
       THEN [pc |-> "done", result |-> Returned(FALSE, None, "none"),
             lines |-> <<>>]
       ELSE IF v.raised # ""
       THEN [pc |-> "raised", result |-> NotReturned, lines |-> <<>>]
       ELSE IF v.is_valid
       THEN [pc |-> "done", result |-> Returned(TRUE, v.data, "fallback"),
             lines |-> <<>>]
       ELSE [pc |-> "done", result |-> Returned(FALSE, None, "none"),
             lines |-> FailureLines("Fallback JSON parsing failed",
                                    v.error, c.content)]

CallsStarted ==
    LET RECURSIVE Sum(_)
        Sum(S) == IF S = {} THEN 0
                  ELSE LET x == CHOOSE x \in S : TRUE
                       IN runs[x] + Sum(S \ {x})
    IN Sum(WorkerInputs)
       + Cardinality({t \in Workers : workers[t].pc \in {"markers", "fallback"}})

\* some thread of T is inside extract_json_report
Running(T) == \E u \in T : workers[u].pc \in {"markers", "fallback"}

\* a thread calls extract_json_report(text): the argument becomes a local
WorkerCall(t, text) ==
    /\ workers[t].pc \in {"idle", "done"}
    /\ CallsStarted < MaxCalls
    /\ workers' = [workers EXCEPT ![t] =
                      [pc |-> "markers", arg |-> text, result |-> NotReturned,
                       overlap |-> FALSE]]
    /\ frames' = [frames EXCEPT ![Frame(t)] = [response_text |-> text]]
    /\ UNCHANGED <<pc, stdout, raised, reportVars, scriptVars, runs, seen,
                   pipelineVars, credVars, configVars, restVars>>

\* the step of a thread leaves its call at position s.pc
WorkerStep(t, s) ==
    /\ workers' = [workers EXCEPT
                      ![t].pc = s.pc,
                      ![t].result = s.result,
                      ![t].overlap = @ \/ Running(Workers \ {t})]
    /\ stdout' = stdout \o s.lines
    /\ IF s.pc = "done"
       THEN /\ seen' = seen \cup {<<workers[t].arg, s.result>>}
            /\ runs' = [runs EXCEPT ![workers[t].arg] = @ + 1]
       ELSE UNCHANGED <<seen, runs>>
    /\ UNCHANGED <<pc, raised, reportVars, scriptVars, frames,
                   pipelineVars, credVars, configVars, restVars>>

\* extract_json_report, lines 102-110, in thread t
WorkerTryMarkers(t) ==
    /\ workers[t].pc = "markers"
    /\ WorkerStep(t, markers_step(frames[Frame(t)].response_text))

\* extract_json_report, lines 112-122, in thread t
WorkerTryFallback(t) ==
    /\ workers[t].pc = "fallback"
    /\ WorkerStep(t, fallback_step(frames[Frame(t)].response_text))

WorkerInit ==
    /\ workers = [t \in Workers |->
                     [pc |-> "idle", arg |-> <<>>, result |-> NotReturned,
                      overlap |-> FALSE]]
    /\ frames = [t \in Workers |-> [response_text |-> <<>>]]
    /\ runs = [x \in WorkerInputs |-> 0]
    /\ seen = {}
    /\ pc = "threads"
    /\ stdout = <<>>
    /\ raised = ""
    /\ ReportIdle
    /\ ScriptIdle
    /\ PipelineIdle
    /\ CredIdle
    /\ ConfigIdle
    /\ RestIdle

WorkerNext ==
    \E t \in Workers :
        \/ \E text \in WorkerInputs : WorkerCall(t, text)
        \/ WorkerTryMarkers(t)
        \/ WorkerTryFallback(t)

WorkerSpec == WorkerInit /\ [][WorkerNext]_vars

\* the result of extract_json_report(text) run alone
SoloResult(text) ==
    IF MarkerTried(text) /\ IsValidJson(BetweenMarkers(text))
    THEN [success |-> TRUE, data |-> DocOf(BetweenMarkers(text)),
          method |-> "markers"]
    ELSE IF BraceCandidateExists(text) /\ IsValidJson(BraceSubstring(text))
    THEN [success |-> TRUE, data |-> DocOf(BraceSubstring(text)),
          method |-> "fallback"]
    ELSE [success |-> FALSE, data |-> None, method |-> "none"]

\* extract_json_report run alone returns SoloResult
SoloResultIsResult == (pc = "done") => result = SoloResult(response_text)

----------------------------------------------------------------------------
(* ResponseProcessor.process_medical_response with its OutputManager *)

MaxResponseParts == 3
ResponsePieces ==
    { <<START>>, <<END>>, <<LBRACE>>, <<RBRACE>>, <<TRUELIT>>,
      <<TIMELINE, COLON, TRUELIT>> }
ResponseTexts == Texts(ResponsePieces, MaxResponseParts)

\* a message of the API response, with or without the key 'text'
Message(text) == [has_text |-> TRUE, text |-> text]
MessageWithoutText == [has_text |-> FALSE, text |-> <<>>]

\* an API response: 'result' and result['messages'] may be missing
ApiResponse(has_result, has_messages, messages) ==
    [has_result |-> has_result, has_messages |-> has_messages,
     messages |-> messages]

ApiResponses ==
    {ApiResponse(FALSE, FALSE, <<>>), ApiResponse(TRUE, FALSE, <<>>),
     ApiResponse(TRUE, TRUE, <<>>),
     ApiResponse(TRUE, TRUE, <<MessageWithoutText>>)}
    \cup {ApiResponse(TRUE, TRUE, <<Message(t)>>) : t \in ResponseTexts}
    \cup {ApiResponse(TRUE, TRUE, <<Message(t), Message(<<PROSE>>)>>) :
            t \in {<<LBRACE, RBRACE>>}}
    \cup {ApiResponse(TRUE, TRUE, <<Message(<<PROSE>>), Message(t)>>) :
            t \in {<<LBRACE, TIMELINE, COLON, TRUELIT, RBRACE>>}}

\* extract_ai_response, lines 22-37: the text of the last message, None
\* when there is no message
extract_ai_response(r) ==
    IF r.has_result /\ r.has_messages /\ Len(r.messages) > 0
    THEN LET last == r.messages[Len(r.messages)]
         IN IF last.has_text THEN Content(last.text) ELSE Content(<<>>)
    ELSE NoContent

\* bool(json_data) of Python
DocTruthy(doc) ==
    CASE doc.kind = "dict" -> DOMAIN doc.val # {}
      [] doc.kind = "list" -> Len(doc.val) > 0
      [] doc.kind = "bool" -> doc.val = <<TRUELIT>>
      [] doc.kind = "str" -> TRUE
      [] OTHER -> FALSE

RAW_RESPONSE_TXT == "./output/raw_response.txt"
CORRELATION_REPORT_JSON == "./output/correlation_report.json"
CORRELATION_REPORT_TXT == "./output/correlation_report.txt"
PreviewChars == 500

\* the dictionary results as it is created at lines 134-141
NewResults ==
    [success |-> FALSE, json_saved |-> FALSE, text_saved |-> FALSE,
     raw_saved |-> FALSE, files_created |-> <<>>, errors |-> <<>>]

\* what a file can hold after a write of content raised: nothing was
\* changed, or the file was created or truncated and the write failed
FailedWrite(file) == {file, File(<<>>)}

\* mutant: only a saved JSON report counts as success
Finished_json_only(r) == [r EXCEPT !.success = r.json_saved]

\* lines 181-187: the success flag
Finished(r) == [r EXCEPT !.success = r.json_saved \/ r.text_saved]

\* lines 143-149: the text of the AI is taken out of the API response
ExtractAiResponse ==
    /\ pc = "extract_ai"
    /\ LET a == extract_ai_response(api_response)
       IN IF ~Truthy(a)
          THEN /\ results' = [results EXCEPT !.errors =
                                 Append(@, "No AI response found in API response")]
               /\ pc' = "returned"
               /\ UNCHANGED <<ai_response, stdout>>
          ELSE /\ ai_response' = a.content
               /\ stdout' = Append(stdout, <<"AI Response received">>)
               /\ pc' = "save_raw"
               /\ UNCHANGED results
    /\ UNCHANGED <<raised, reportVars, scriptVars, workerVars, api_response,
                   correlation_report_json, correlation_report_txt,
                   credVars, configVars, restVars>>

\* lines 151-161: raw_response.txt is written, or the write raises, and
\* extract_json_report is called
SaveRawResponse ==
    /\ pc = "save_raw"
    /\ \/ /\ raw_response_txt' = File(ai_response)
          /\ results' = [results EXCEPT
                            !.raw_saved = TRUE,
                            !.files_created = Append(@, RAW_RESPONSE_TXT)]
          /\ stdout' = Append(stdout, <<"Raw response saved to", RAW_RESPONSE_TXT>>)
       \/ /\ raw_response_txt' \in FailedWrite(raw_response_txt)
          /\ results' = [results EXCEPT !.errors =
                            Append(@, "Failed to save raw response")]
          /\ UNCHANGED stdout
    /\ response_text' = ai_response
    /\ pc' = "markers"
    /\ UNCHANGED <<raised, result, attempts, prog, cleaned_content, candidate,
                   json_data, report_json, ret, workerVars, api_response,
                   ai_response, correlation_report_json,
                   correlation_report_txt, credVars, configVars, restVars>>

\* lines 163-170 and 181-187: the document is saved
SaveJsonReport ==
    /\ pc = "done"
    /\ result.success /\ DocTruthy(result.data)
    /\ \/ /\ correlation_report_json' = File(json_dumps(result.data, 0))
          /\ results' = Finished([results EXCEPT
                            !.json_saved = TRUE,
                            !.files_created = Append(@, CORRELATION_REPORT_JSON)])
          /\ stdout' = stdout \o
                << <<"JSON correlation report saved to",
                     CORRELATION_REPORT_JSON, result.method>>,
                   <<"Response preview", Slice(ai_response, 0, PreviewChars)>> >>
       \/ /\ correlation_report_json' \in FailedWrite(correlation_report_json)
          /\ results' = Finished([results EXCEPT !.errors =
                            Append(@, "Failed to save JSON report")])
          /\ stdout' = Append(stdout,
                <<"Response preview", Slice(ai_response, 0, PreviewChars)>>)
    /\ pc' = "returned"
    /\ UNCHANGED <<raised, reportVars, scriptVars, workerVars, api_response,
                   ai_response, correlation_report_txt, credVars, configVars, restVars>>

\* lines 171-179 and 181-187: the raw text is saved as the report
SaveTextReport ==
    /\ pc = "done"
    /\ ~(result.success /\ DocTruthy(result.data))
    /\ \/ /\ correlation_report_txt' = File(ai_response)
          /\ results' = Finished([results EXCEPT
                            !.text_saved = TRUE,
                            !.files_created = Append(@, CORRELATION_REPORT_TXT)])
          /\ stdout' = stdout \o
                << <<"Could not extract valid JSON, saved as text",
                     CORRELATION_REPORT_TXT>>,
                   <<"Response preview", Slice(ai_response, 0, PreviewChars)>> >>
       \/ /\ correlation_report_txt' \in FailedWrite(correlation_report_txt)
          /\ results' = Finished([results EXCEPT !.errors =
                            Append(@, "Failed to save text report")])
          /\ stdout' = Append(stdout,
                <<"Response preview", Slice(ai_response, 0, PreviewChars)>>)
    /\ pc' = "returned"
    /\ UNCHANGED <<raised, reportVars, scriptVars, workerVars, api_response,
                   ai_response, correlation_report_json, credVars, configVars, restVars>>

PipelineInit ==
    /\ api_response \in ApiResponses
    /\ ai_response = <<>>
    /\ results = NewResults
    /\ correlation_report_json = NoFile
    /\ correlation_report_txt = NoFile
    /\ pc = "extract_ai"
    /\ stdout = <<>>
    /\ raised = ""
    /\ ReportIdle
    /\ ScriptIdle
    /\ WorkerIdle
    /\ CredIdle
    /\ ConfigIdle
    /\ RestIdle

PipelineNext ==
    \/ ExtractAiResponse
    \/ SaveRawResponse
    \/ TryMarkers
    \/ TryFallback
    \/ SaveJsonReport
    \/ SaveTextReport

PipelineSpec == PipelineInit /\ [][PipelineNext]_vars

----------------------------------------------------------------------------
(* C14, C15: what process_medical_response leaves in the output directory *)

\* process_medical_response returned after it found the text of the AI
Processed == pc = "returned" /\ ai_response # <<>>

\* C14 (report persistence): for a response with AI text and no failed
\* write, a successful extraction leaves its document in
\* correlation_report.json and no text report, and a failed extraction
\* leaves the full raw response in correlation_report.txt.
C14_ReportPersistence ==
    (Processed /\ results.errors = <<>>)
    => /\ result.success
             => /\ correlation_report_json = File(json_dumps(result.data, 0))
                /\ results.json_saved
                /\ correlation_report_txt = NoFile
                /\ ~results.text_saved
       /\ ~result.success
             => /\ correlation_report_txt = File(ai_response)
                /\ results.text_saved
                /\ correlation_report_json = NoFile

\* a successful extraction of an empty object was saved as a text report
C14_EmptyObjectAsText ==
    /\ Processed
    /\ results.errors = <<>>
    /\ result.success
    /\ result.data = JsonObj(EmptyMembers)
    /\ correlation_report_txt = File(ai_response)
    /\ correlation_report_json = NoFile

\* the half of C14 that holds: documents that Python takes as true
C14_TruthyDocuments ==
    (Processed /\ results.errors = <<>> /\ result.success /\ DocTruthy(result.data))
    => /\ correlation_report_json = File(json_dumps(result.data, 0))
       /\ correlation_report_txt = NoFile

\* C15 (never lose the raw response): whenever process_medical_response
\* returns with success true, raw_response.txt or correlation_report.txt
\* holds the full raw response, also when a write failed along the way.
C15_RawResponseKept ==
    (Processed /\ results.success)
    => \/ raw_response_txt = File(ai_response)
       \/ correlation_report_txt = File(ai_response)

\* success was reported although the only copy of the raw response failed
\* to be written
C15_RawResponseLost ==
    /\ Processed
    /\ results.success
    /\ ~results.raw_saved
    /\ results.json_saved
    /\ raw_response_txt # File(ai_response)
    /\ correlation_report_txt = NoFile

\* the half of C15 that holds: no write failed
C15_KeptWithoutFailure ==
    (Processed /\ results.errors = <<>>)
    => results.success /\ raw_response_txt = File(ai_response)

----------------------------------------------------------------------------
(* Credentials: AbacusAuthConfig, AbacusAPIClient, SendToLLM.send_json_to_gpt5 *)

\* None of Python: a variable that is not set, an argument that is not given
Unset == "<None>"
EnvValues == {Unset, "", "env"}
ArgValues == {Unset, "", "arg"}

Credentials(token, id, key) ==
    [deployment_token |-> token, deployment_id |-> id, api_key |-> key]
Environments == {Credentials(t, i, k) : t \in EnvValues, i \in EnvValues, k \in EnvValues}
Arguments == {Credentials(t, i, k) : t \in ArgValues, i \in ArgValues, k \in ArgValues}

\* bool(v) of Python for None and strings
IsSet(v) == v \notin {Unset, ""}

\* the value of (a or b) of Python
PyOr(a, b) == IF IsSet(a) THEN a ELSE b

\* AbacusAuthConfig.__init__, lines 19-22
AbacusAuthConfig(env) ==
    Credentials(env.deployment_token, env.deployment_id, env.api_key)

RaisedValueError == [raised |-> "ValueError", value |-> <<>>]
Returns(value) == [raised |-> "", value |-> value]
Pending == [raised |-> "pending", value |-> <<>>]

\* mutant: the deployment id is not checked
get_credentials_unchecked_id(config, args) ==
    LET final_token == PyOr(args.deployment_token, config.deployment_token)
        final_id == PyOr(args.deployment_id, config.deployment_id)
        final_key == PyOr(args.api_key, config.api_key)
    IN IF ~IsSet(final_token) /\ ~IsSet(final_key)
       THEN RaisedValueError
       ELSE Returns(Credentials(final_token, final_id, final_key))

\* AbacusAuthConfig.get_credentials, lines 24-60
get_credentials(config, args) ==
    LET final_token == PyOr(args.deployment_token, config.deployment_token)
        final_id == PyOr(args.deployment_id, config.deployment_id)
        final_key == PyOr(args.api_key, config.api_key)
    IN IF ~IsSet(final_token) /\ ~IsSet(final_key)
       THEN RaisedValueError
       ELSE IF ~IsSet(final_id)
       THEN RaisedValueError
       ELSE Returns(Credentials(final_token, final_id, final_key))

\* AbacusAuthConfig.validate_credentials, lines 62-73
validate_credentials(config) ==
    Returns(get_credentials(config, Credentials(Unset, Unset, Unset)).raised
                # "ValueError")

\* SendToLLM.send_json_to_gpt5, lines 24-35: the credentials it goes on
\* with, or the ValueError
send_json_to_gpt5_credentials(env, args) ==
    LET deployment_token == IF args.deployment_token = Unset
                            THEN env.deployment_token ELSE args.deployment_token
        deployment_id == IF args.deployment_id = Unset
                         THEN env.deployment_id ELSE args.deployment_id
        api_key == IF args.api_key = Unset THEN env.api_key ELSE args.api_key
    IN IF ~IsSet(deployment_token) /\ ~IsSet(api_key)
       THEN RaisedValueError
       ELSE IF ~IsSet(deployment_id)
       THEN RaisedValueError
       ELSE Returns(Credentials(deployment_token, deployment_id, api_key))

\* the credentials of an HTTP request: the apiKey header and the
\* deploymentToken field are only sent when they are set
Request(endpoint, c) ==
    [endpoint |-> endpoint,
     deploymentId |-> c.deployment_id,
     deploymentToken |-> IF IsSet(c.deployment_token) THEN c.deployment_token ELSE Unset,
     apiKey |-> IF IsSet(c.api_key) THEN c.api_key ELSE Unset]

\* the functions that are called, each once, with the same arguments
CredentialFunctions ==
    {"get_credentials", "validate_credentials", "send_chat_request",
     "send_completion_request", "upload_file", "send_json_to_gpt5"}

RaisedFileNotFound == [raised |-> "FileNotFoundError", value |-> <<>>]

\* a request was sent: the response is returned, or the request or its
\* status raises and Exception is raised instead
AfterRequest == {Returns("response"), [raised |-> "Exception", value |-> <<>>]}

\* the outcome of function fn is recorded
Outcome(fn, o) == call' = [call EXCEPT !.out[fn] = o]

\* the part the three methods of AbacusAPIClient share: credentials first,
\* then the file if there is one to open, then the request
ClientRequest(fn, endpoint, opens_file) ==
    /\ call.out[fn] = Pending
    /\ LET c == get_credentials(auth_config, call.args)
       IN IF c.raised # ""
          THEN Outcome(fn, c) /\ UNCHANGED requests_post
          ELSE IF opens_file /\ ~call.file_exists
          THEN Outcome(fn, RaisedFileNotFound) /\ UNCHANGED requests_post
          ELSE /\ requests_post' = requests_post \cup {Request(endpoint, c.value)}
               /\ \E o \in AfterRequest : Outcome(fn, o)
    /\ UNCHANGED <<pc, stdout, raised, reportVars, scriptVars, workerVars,
                   pipelineVars, environ, auth_config, configVars, restVars>>

\* abacus_client.py, lines 22-70
SendChatRequest == ClientRequest("send_chat_request", "getChatResponse", FALSE)

\* abacus_client.py, lines 72-114
SendCompletionRequest ==
    ClientRequest("send_completion_request", "getCompletion", FALSE)

\* abacus_client.py, lines 116-172
UploadFile == ClientRequest("upload_file", "uploadFile", TRUE)

\* auth_config.py, lines 24-60, called with the arguments
GetCredentials ==
    /\ call.out["get_credentials"] = Pending
    /\ Outcome("get_credentials", get_credentials(auth_config, call.args))
    /\ UNCHANGED <<pc, stdout, raised, reportVars, scriptVars, workerVars,
                   pipelineVars, environ, auth_config, requests_post, configVars, restVars>>

\* auth_config.py, lines 62-73
ValidateCredentials ==
    /\ call.out["validate_credentials"] = Pending
    /\ Outcome("validate_credentials", validate_credentials(auth_config))
    /\ UNCHANGED <<pc, stdout, raised, reportVars, scriptVars, workerVars,
                   pipelineVars, environ, auth_config, requests_post, configVars, restVars>>

\* SendToLLM.send_json_to_gpt5, lines 24-80: credentials, then the JSON
\* file, then the request
SendJsonToGpt5 ==
    /\ call.out["send_json_to_gpt5"] = Pending
    /\ LET c == send_json_to_gpt5_credentials(environ, call.args)
       IN IF c.raised # ""
          THEN /\ call' = [call EXCEPT !.out["send_json_to_gpt5"] = c,
                                       !.original = c]
               /\ UNCHANGED requests_post
          ELSE IF ~call.file_exists
          THEN /\ call' = [call EXCEPT
                              !.out["send_json_to_gpt5"] = RaisedFileNotFound,
                              !.original = c]
               /\ UNCHANGED requests_post
          ELSE /\ requests_post' = requests_post
                                      \cup {Request("SendToLLM getChatResponse", c.value)}
               /\ \E o \in AfterRequest :
                     call' = [call EXCEPT !.out["send_json_to_gpt5"] = o,
                                          !.original = c]
    /\ UNCHANGED <<pc, stdout, raised, reportVars, scriptVars, workerVars,
                   pipelineVars, environ, auth_config, configVars, restVars>>

CredInit ==
    /\ environ \in Environments
    /\ auth_config = AbacusAuthConfig(environ)
    /\ \E args \in Arguments : \E file_exists \in BOOLEAN :
          call = [args |-> args, file_exists |-> file_exists,
                  out |-> [fn \in CredentialFunctions |-> Pending],
                  original |-> Pending]
    /\ requests_post = {}
    /\ pc = "credentials"
    /\ stdout = <<>>
    /\ raised = ""
    /\ ReportIdle
    /\ ScriptIdle
    /\ WorkerIdle
    /\ PipelineIdle
    /\ ConfigIdle
    /\ RestIdle

CredNext ==
    \/ GetCredentials
    \/ ValidateCredentials
    \/ SendChatRequest
    \/ SendCompletionRequest
    \/ UploadFile
    \/ SendJsonToGpt5

CredSpec == CredInit /\ [][CredNext]_vars

----------------------------------------------------------------------------
(* C18, C19: credentials *)

\* the credentials as a request carries them
Sent(c) == Request("", c)

\* C18 (backward compatibility of credential resolution): for the same
\* arguments and environment, get_credentials of the legacy package and
\* send_json_to_gpt5 of SendToLLM both raise ValueError, or both resolve to
\* the same deployment token, deployment id and API key.
C18_SameResolution ==
    (call.out["get_credentials"] # Pending /\ call.original # Pending)
    => LET legacy == call.out["get_credentials"]
           original == call.original
       IN \/ legacy.raised = "ValueError" /\ original.raised = "ValueError"
          \/ /\ legacy.raised = "" /\ original.raised = ""
             /\ Sent(legacy.value) = Sent(original.value)

\* an empty deployment id argument: the legacy package falls back to the
\* environment and resolves, the original raises ValueError
C18_EmptyArgument ==
    /\ call.args.deployment_id = ""
    /\ environ.deployment_id = "env"
    /\ call.out["get_credentials"].raised = ""
    /\ call.out["get_credentials"].value.deployment_id = "env"
    /\ call.original = RaisedValueError

\* the half of C18 that holds: no argument is the empty string
C18_WithoutEmptyArguments ==
    (/\ call.out["get_credentials"] # Pending /\ call.original # Pending
     /\ call.args.deployment_token # ""
     /\ call.args.deployment_id # ""
     /\ call.args.api_key # "")
    => LET legacy == call.out["get_credentials"]
           original == call.original
       IN \/ legacy.raised = "ValueError" /\ original.raised = "ValueError"
          \/ /\ legacy.raised = "" /\ original.raised = ""
             /\ Sent(legacy.value) = Sent(original.value)

\* a credential is available from the arguments or from the environment
Available(name) == IsSet(call.args[name]) \/ IsSet(environ[name])
CredentialsAvailable ==
    /\ Available("deployment_token") \/ Available("api_key")
    /\ Available("deployment_id")

ClientEndpoints ==
    [send_chat_request |-> "getChatResponse",
     send_completion_request |-> "getCompletion",
     upload_file |-> "uploadFile"]

\* C19 (credentials are validated before any request): when neither a
\* deployment token nor an API key is available, or no deployment id is,
\* send_chat_request, send_completion_request and upload_file raise
\* ValueError and make no HTTP request, whether or not the file to upload
\* exists; every request made carries a deployment id and a token or a key;
\* validate_credentials returns true exactly when get_credentials without
\* arguments does not raise.
C19_ValidatedBeforeRequest ==
    /\ \A fn \in DOMAIN ClientEndpoints :
          (call.out[fn] # Pending /\ ~CredentialsAvailable)
          => /\ call.out[fn] = RaisedValueError
             /\ \A r \in requests_post : r.endpoint # ClientEndpoints[fn]
    /\ \A r \in requests_post :
          r.endpoint \in {ClientEndpoints[fn] : fn \in DOMAIN ClientEndpoints}
          => /\ IsSet(r.deploymentId)
             /\ IsSet(r.deploymentToken) \/ IsSet(r.apiKey)
    /\ call.out["validate_credentials"] # Pending
          => /\ call.out["validate_credentials"].value
                   = (/\ IsSet(environ.deployment_token) \/ IsSet(environ.api_key)
                      /\ IsSet(environ.deployment_id))
             /\ (/\ call.out["get_credentials"] # Pending
                 /\ call.args = Credentials(Unset, Unset, Unset))
                   => (call.out["validate_credentials"].value
                          <=> call.out["get_credentials"].raised = "")

\* a key is available but no deployment id: the three methods raised, the
\* upload before it looked for its missing file, and nothing was sent
C19_Witness ==
    /\ Available("api_key")
    /\ ~Available("deployment_id")
    /\ ~call.file_exists
    /\ \A fn \in DOMAIN ClientEndpoints : call.out[fn] = RaisedValueError
    /\ call.out["validate_credentials"] = Returns(FALSE)
    /\ requests_post = {}

----------------------------------------------------------------------------
(* LLMConfig of src/llm_chat/config.py *)

\* a ModelConfig, by the two fields that tell the configurations apart
ModelConfig(provider, model_name) ==
    [provider |-> provider, model_name |-> model_name]

\* LLMConfig._load_model_configs, lines 34-80
load_model_configs ==
    [name \in {"abacus-gpt5", "openai-gpt4", "openai-gpt5", "anthropic-claude"} |->
        CASE name = "abacus-gpt5" -> ModelConfig("abacus", "gpt-5")
          [] name = "openai-gpt4" -> ModelConfig("openai", "gpt-4")
          [] name = "openai-gpt5" -> ModelConfig("openai", "gpt-5")
          [] name = "anthropic-claude" ->
                ModelConfig("anthropic", "claude-3-sonnet-20240229")]

\* the names the calls are made with: configured ones, one that
\* add_custom_model may add, and one that is never configured
ModelNames == {"abacus-gpt5", "openai-gpt4", "my-model", "invalid-model"}
CustomNames == {"my-model", "abacus-gpt5"}
CustomConfigs == {ModelConfig("abacus", "custom-deployment"),
                  ModelConfig("openai", "gpt-4o")}

\* the values of DEFAULT_MODEL in the environment; Unset gives 'abacus-gpt5'
DefaultModelValues == {Unset, "openai-gpt4", "invalid-model"}

\* mutant: the unknown model is answered with the configuration of the default
get_model_config_or_default(ms, dflt, model_name) ==
    LET name == IF model_name = Unset THEN dflt ELSE model_name
    IN IF name \notin DOMAIN ms
       THEN IF dflt \in DOMAIN ms THEN Returns(ms[dflt]) ELSE RaisedValueError
       ELSE Returns(ms[name])

\* LLMConfig.get_model_config, lines 82-90
get_model_config(ms, dflt, model_name) ==
    LET name == IF model_name = Unset THEN dflt ELSE model_name
    IN IF name \notin DOMAIN ms
       THEN RaisedValueError
       ELSE Returns(ms[name])

\* mutant: the default is assigned before the name is checked
set_default_model_unchecked(ms, dflt, model_name) ==
    IF model_name \notin DOMAIN ms
    THEN [raised |-> "ValueError", value |-> <<>>, default_model |-> model_name]
    ELSE [raised |-> "", value |-> Unset, default_model |-> model_name]

\* LLMConfig.set_default_model, lines 100-104: the outcome and the default
\* model afterwards
set_default_model(ms, dflt, model_name) ==
    IF model_name \notin DOMAIN ms
    THEN [raised |-> "ValueError", value |-> <<>>, default_model |-> dflt]
    ELSE [raised |-> "", value |-> Unset, default_model |-> model_name]

\* the call that was made, what it gave, and the configuration before it
ConfigCall(op, arg, o) ==
    [op |-> op, arg |-> arg, raised |-> o.raised, value |-> o.value,
     before |-> [models |-> models, default_model |-> default_model]]

GetModelConfig(model_name) ==
    /\ config_call' = ConfigCall("get_model_config", model_name,
                                 get_model_config(models, default_model, model_name))
    /\ UNCHANGED <<models, default_model>>
    /\ UNCHANGED <<pc, stdout, raised, reportVars, scriptVars, workerVars,
                   pipelineVars, credVars, restVars>>

\* LLMConfig.list_available_models, lines 92-94
ListAvailableModels ==
    /\ config_call' = ConfigCall("list_available_models", Unset,
                        Returns([name \in DOMAIN models |-> models[name].provider]))
    /\ UNCHANGED <<models, default_model>>
    /\ UNCHANGED <<pc, stdout, raised, reportVars, scriptVars, workerVars,
                   pipelineVars, credVars, restVars>>

\* LLMConfig.add_custom_model, lines 96-98
AddCustomModel(name, config) ==
    /\ models' = [n \in DOMAIN models \cup {name} |->
                     IF n = name THEN config ELSE models[n]]
    /\ config_call' = ConfigCall("add_custom_model", name, Returns(Unset))
    /\ UNCHANGED default_model
    /\ UNCHANGED <<pc, stdout, raised, reportVars, scriptVars, workerVars,
                   pipelineVars, credVars, restVars>>

SetDefaultModel(model_name) ==
    /\ LET o == set_default_model(models, default_model, model_name)
       IN /\ default_model' = o.default_model
          /\ config_call' = ConfigCall("set_default_model", model_name, o)
    /\ UNCHANGED models
    /\ UNCHANGED <<pc, stdout, raised, reportVars, scriptVars, workerVars,
                   pipelineVars, credVars, restVars>>

\* LLMConfig.__init__, lines 30-32
ConfigInit ==
    /\ models = load_model_configs
    /\ \E v \in DefaultModelValues :
          default_model = IF v = Unset THEN "abacus-gpt5" ELSE v
    /\ config_call = [op |-> "__init__", arg |-> Unset, raised |-> "",
                      value |-> Unset,
                      before |-> [models |-> <<>>, default_model |-> ""]]
    /\ pc = "config"
    /\ stdout = <<>>
    /\ raised = ""
    /\ ReportIdle
    /\ ScriptIdle
    /\ WorkerIdle
    /\ PipelineIdle
    /\ CredIdle
    /\ RestIdle

ConfigNext ==
    \/ \E name \in ModelNames \cup {Unset} : GetModelConfig(name)
    \/ \E name \in ModelNames : SetDefaultModel(name)
    \/ \E name \in CustomNames : \E config \in CustomConfigs :
          AddCustomModel(name, config)
    \/ ListAvailableModels

ConfigSpec == ConfigInit /\ [][ConfigNext]_vars

\* C20 (unknown models are rejected without changing state):
\* get_model_config(name) and set_default_model(name) raise ValueError when
\* name is not a configured model, and leave default_model and models as
\* they were; for a configured name get_model_config returns exactly the
\* configuration stored under that name.
C20_UnknownModelRejected ==
    LET before == config_call.before
        known == config_call.arg \in DOMAIN before.models
        unchanged == models = before.models /\ default_model = before.default_model
    IN /\ (config_call.op = "get_model_config" /\ config_call.arg # Unset)
             => /\ unchanged
                /\ ~known => config_call.raised = "ValueError"
                /\ known => /\ config_call.raised = ""
                            /\ config_call.value = before.models[config_call.arg]
       /\ config_call.op = "set_default_model"
             => /\ models = before.models
                /\ ~known => config_call.raised = "ValueError" /\ unchanged
                /\ known => config_call.raised = "" /\ default_model = config_call.arg

\* set_default_model of an unknown name was rejected on a configuration
\* that earlier calls had changed
C20_Witness ==
    /\ config_call.op = "set_default_model"
    /\ config_call.arg = "invalid-model"
    /\ config_call.raised = "ValueError"
    /\ default_model = "openai-gpt4"
    /\ "my-model" \in DOMAIN models
    /\ models["abacus-gpt5"] # load_model_configs["abacus-gpt5"]

\* ---------------------------------------------------------------------
\* LLMChatClient of src/llm_chat/chat_llm.py
\* ---------------------------------------------------------------------

\* the longest conversation history a call may leave
MaxHistory == 3

\* LLMChatClient.model_config.provider; a custom model may name any provider
Providers == {"abacus", "openai", "anthropic", "other"}

UserMessages == {"q1", "q2"}
SystemPrompts == {Unset, "Be brief."}

\* the attachment lists send_message is called with; None is the empty list
AttachmentLists ==
    {<<>>, <<"nonexistent.json">>,
     <<"locked.txt", "nonexistent.json", "data.json">>}

\* what the request gives: the text of the last message of the response, a
\* response without result, or a RequestException
Replies == {"answer", "NoResult", "RequestException"}

\* os.path.exists(path), line 96
os_path_exists(path) == path # "nonexistent.json"

\* open(path) and f.read(), lines 102-103: locked.txt cannot be read
Readable(path) == path # "locked.txt"

\* ChatMessage, lines 13-18
ChatMessage(role, content, attachments) ==
    [role |-> role, content |-> content, attachments |-> attachments]

\* mutant: the message is put in front of the history
add_message_front(history, role, content, attachments) ==
    <<ChatMessage(role, content, attachments)>> \o history

\* LLMChatClient.add_message, lines 37-40
add_message(history, role, content, attachments) ==
    Append(history, ChatMessage(role, content, attachments))

\* LLMChatClient._process_attachments, lines 91-128: the processed
\* attachments and the lines printed
RECURSIVE process_attachments(_)
process_attachments(attachment_paths) ==
    IF attachment_paths = <<>>
    THEN [processed |-> <<>>, printed |-> <<>>]
    ELSE LET path == Head(attachment_paths)
             rest == process_attachments(Tail(attachment_paths))
         IN IF ~os_path_exists(path)
            THEN [processed |-> rest.processed,
                  printed |-> <<"Warning: Attachment file not found", path>>
                              \o rest.printed]
            ELSE IF ~Readable(path)
            THEN [processed |-> rest.processed,
                  printed |-> <<"Error processing attachment", path>>
                              \o rest.printed]
            ELSE [processed |-> <<[filename |-> path,
                                   type |-> IF path = "data.json"
                                            THEN "json" ELSE "text"]>>
                                \o rest.processed,
                  printed |-> rest.printed]

\* LLMChatClient._format_attachments_for_abacus, lines 202-221, as the
\* pieces of the text
RECURSIVE format_attachments_for_abacus(_)
format_attachments_for_abacus(attachments) ==
    IF attachments = <<>>
    THEN <<>>
    ELSE format_attachments_for_abacus(SubSeq(attachments, 1, Len(attachments) - 1))
         \o (IF Len(attachments) = 1 THEN <<"## Attached Files:">> ELSE <<>>)
         \o <<"### ", attachments[Len(attachments)].filename,
              FENCE, attachments[Len(attachments)].type,
              "content of", attachments[Len(attachments)].filename, FENCE>>

\* the text of one message of the request, lines 142-150 and 156-163
abacus_text(msg) ==
    IF msg.attachments # <<>>
    THEN <<msg.content>> \o format_attachments_for_abacus(msg.attachments)
    ELSE <<msg.content>>

\* LLMChatClient._send_to_abacus, lines 138-165: the messages of the payload
abacus_messages(history, include_history) ==
    IF include_history
    THEN [i \in 1..Len(history) |->
             [is_user |-> history[i].role = "user",
              text |-> abacus_text(history[i])]]
    ELSE <<[is_user |-> TRUE, text |-> abacus_text(history[Len(history)])]>>

\* LLMChatClient._send_to_abacus, lines 182-190: the content of the response
response_content(reply) ==
    CASE reply = "NoMessages" -> "No response received"
      [] reply = "NoResult" -> "Unexpected response format"
      [] OTHER -> reply

\* LLMChatClient.send_message, lines 46-89: the history afterwards, the
\* messages posted, the exception raised and the content returned
send_message(history, provider, message, attachments, system_prompt, include_history, reply) ==
    LET p == IF attachments # <<>>
             THEN process_attachments(attachments)
             ELSE [processed |-> <<>>, printed |-> <<>>]
        with_system == IF IsSet(system_prompt) /\ ~include_history
                       THEN add_message(history, "system", system_prompt, <<>>)
                       ELSE history
        with_user == add_message(with_system, "user", message, p.processed)
        failed(exception, posted) ==
            [history |-> with_user, posted |-> posted, raised |-> exception,
             value |-> Unset, printed |-> p.printed]
    IN CASE provider = "abacus" ->
              LET posted == abacus_messages(with_user, include_history)
              IN IF reply = "RequestException"
                 THEN failed("Exception", posted)
                 ELSE [history |-> add_message(with_user, "assistant",
                                               response_content(reply), <<>>),
                       posted |-> posted, raised |-> "",
                       value |-> response_content(reply),
                       printed |-> p.printed]
         [] provider \in {"openai", "anthropic"} ->
              failed("NotImplementedError", <<>>)
         [] OTHER -> failed("ValueError", <<>>)

\* the call that was made, what it gave, and the history before it
ChatCall(op, role, message, attachments, system_prompt, include_history, o) ==
    [op |-> op, role |-> role, message |-> message,
     attachments |-> attachments, system_prompt |-> system_prompt,
     include_history |-> include_history, raised |-> o.raised,
     value |-> o.value, printed |-> o.printed,
     before |-> conversation_history]

NoOutcome == [raised |-> "", value |-> Unset, printed |-> <<>>]

AddMessage(role, content) ==
    /\ Len(conversation_history) < MaxHistory
    /\ conversation_history' = add_message(conversation_history, role, content, <<>>)
    /\ chat_call' = ChatCall("add_message", role, content, <<>>, Unset, TRUE,
                             NoOutcome)
    /\ posted_messages' = <<>>
    /\ UNCHANGED <<pc, stdout, raised, reportVars, scriptVars, workerVars,
                   pipelineVars, credVars, configVars, model_config,
                   pageVars, workflowVars>>

\* LLMChatClient.clear_history, lines 42-44
ClearHistory ==
    /\ conversation_history' = <<>>
    /\ chat_call' = ChatCall("clear_history", Unset, Unset, <<>>, Unset, TRUE,
                             NoOutcome)
    /\ posted_messages' = <<>>
    /\ UNCHANGED <<pc, stdout, raised, reportVars, scriptVars, workerVars,
                   pipelineVars, credVars, configVars, model_config,
                   pageVars, workflowVars>>

SendMessage(message, attachments, system_prompt, include_history, reply) ==
    LET o == send_message(conversation_history, model_config.provider, message,
                          attachments, system_prompt, include_history, reply)
    IN /\ Len(o.history) <= MaxHistory
       /\ conversation_history' = o.history
       /\ posted_messages' = o.posted
       /\ chat_call' = ChatCall("send_message", "user", message, attachments,
                                system_prompt, include_history, o)
       /\ UNCHANGED <<pc, stdout, raised, reportVars, scriptVars, workerVars,
                      pipelineVars, credVars, configVars, model_config,
                      pageVars, workflowVars>>

\* LLMChatClient.__init__, lines 32-35
ChatInit ==
    /\ \E provider \in Providers : model_config = [provider |-> provider]
    /\ conversation_history = <<>>
    /\ chat_call = [op |-> "__init__", role |-> Unset, message |-> Unset,
                    attachments |-> <<>>, system_prompt |-> Unset,
                    include_history |-> TRUE, raised |-> "", value |-> Unset,
                    printed |-> <<>>, before |-> <<>>]
    /\ posted_messages = <<>>
    /\ pc = "chat"
    /\ stdout = <<>>
    /\ raised = ""
    /\ ReportIdle
    /\ ScriptIdle
    /\ WorkerIdle
    /\ PipelineIdle
    /\ CredIdle
    /\ ConfigIdle
    /\ PageIdle
    /\ WorkflowIdle

ChatNext ==
    \/ \E role \in {"user", "assistant", "system"} :
          AddMessage(role, IF role = "user" THEN "q1" ELSE "note")
    \/ ClearHistory
    \/ \E message \in UserMessages, attachments \in AttachmentLists,
          system_prompt \in SystemPrompts, include_history \in BOOLEAN,
          reply \in Replies :
          SendMessage(message, attachments, system_prompt, include_history, reply)

ChatSpec == ChatInit /\ [][ChatNext]_vars

\* s is an initial part of t
IsPrefix(s, t) == Len(s) <= Len(t) /\ SubSeq(t, 1, Len(s)) = s

\* the last call was send_message, and what it added to the history
Sending == chat_call.op = "send_message"
Added ==
    SubSeq(conversation_history, Len(chat_call.before) + 1,
           Len(conversation_history))
MissingAttachment ==
    \E i \in DOMAIN chat_call.attachments :
        ~os_path_exists(chat_call.attachments[i])

\* C21 (a missing attachment file is an error): send_message called with
\* an attachment path that does not exist raises an exception to the caller
\* and posts no message without the attachment.
C21_MissingAttachmentRaises ==
    (Sending /\ MissingAttachment)
        => chat_call.raised # "" /\ posted_messages = <<>>

\* C24 (the conversation history is append-only): add_message adds exactly
\* one message at the end; a successful send_message adds the user message
\* followed by the assistant response, after at most the system prompt;
\* every call but clear_history keeps the earlier messages as they were and
\* in their order; after clear_history the history is empty.
C24_AppendOnly ==
    /\ chat_call.op = "add_message"
          => /\ IsPrefix(chat_call.before, conversation_history)
             /\ Added = <<ChatMessage(chat_call.role, chat_call.message, <<>>)>>
    /\ Sending => IsPrefix(chat_call.before, conversation_history)
    /\ (Sending /\ chat_call.raised = "")
          => /\ Len(Added) \in {2, 3}
             /\ Added[Len(Added) - 1].role = "user"
             /\ Added[Len(Added) - 1].content = chat_call.message
             /\ Added[Len(Added)] =
                    ChatMessage("assistant", chat_call.value, <<>>)
             /\ Len(Added) = 3
                    => Added[1] = ChatMessage("system", chat_call.system_prompt, <<>>)
    /\ chat_call.op = "clear_history" => conversation_history = <<>>

\* a send succeeded on a history that already held a message
C24_Witness ==
    /\ Sending
    /\ chat_call.raised = ""
    /\ Len(chat_call.before) = 1
    /\ Len(conversation_history) = 3

\* C25 (a failed send leaves the conversation unchanged): when send_message
\* raises, conversation_history is what it was before the call.
C25_FailedSendLeavesHistory ==
    (Sending /\ chat_call.raised # "")
        => conversation_history = chat_call.before

\* C26 (the system prompt is delivered): when send_message is given a
\* system prompt and posts a request, the prompt is the text of one of the
\* posted messages, with include_history true or false; with include_history
\* false the only other message posted is the current user message.
C26_SystemPromptDelivered ==
    (Sending /\ IsSet(chat_call.system_prompt) /\ posted_messages # <<>>)
        => /\ \E i \in DOMAIN posted_messages :
                 posted_messages[i].text = <<chat_call.system_prompt>>
           /\ ~chat_call.include_history
                 => /\ Len(posted_messages) = 2
                    /\ \E i \in DOMAIN posted_messages :
                          /\ posted_messages[i].is_user
                          /\ posted_messages[i].text[1] = chat_call.message

\* C29 (the default model is always configured): in every state of an
\* LLMConfig default_model names a model present in models, so
\* get_model_config() without an argument returns a configuration.
C29_DefaultModelConfigured ==
    /\ default_model \in DOMAIN models
    /\ (config_call.op = "get_model_config" /\ config_call.arg = Unset)
          => config_call.raised = ""

\* ---------------------------------------------------------------------
\* format_page_ranges of generate_correlation_reports.py
\* ---------------------------------------------------------------------

\* the longest list of pages
MaxPages == 4

\* the page numbers the lists are made of
PageNumbers == {1, 2, 3, 5, 6, 9, 10, 11}
PageLists == UNION {[1..n -> PageNumbers] : n \in 0..MaxPages}

Digits == <<"0", "1", "2", "3", "4", "5", "6", "7", "8", "9">>

\* str(n) for n >= 0, as its characters
RECURSIVE str_int(_)
str_int(n) ==
    IF n < 10
    THEN <<Digits[n + 1]>>
    ELSE str_int(n \div 10) \o <<Digits[(n % 10) + 1]>>

\* sorted(set(pages)), line 81
RECURSIVE sorted(_)
sorted(S) ==
    IF S = {}
    THEN <<>>
    ELSE LET least == CHOOSE x \in S : \A y \in S : x <= y
         IN <<least>> \o sorted(S \ {least})

\* str(start) or f"{start}-{end}", lines 90-93 and 97-100
range_str(start, end) ==
    IF start = end
    THEN str_int(start)
    ELSE str_int(start) \o <<"-">> \o str_int(end)

\* the loop of lines 86-94 from index i on, and the last range of lines
\* 97-100
RECURSIVE page_loop(_, _, _, _, _)
page_loop(ps, i, start, end, ranges) ==
    IF i > Len(ps)
    THEN Append(ranges, range_str(start, end))
    ELSE IF ps[i] = end + 1
         THEN page_loop(ps, i + 1, start, ps[i], ranges)
         ELSE page_loop(ps, i + 1, ps[i], ps[i],
                        Append(ranges, range_str(start, end)))

\* ", ".join(ranges), line 102
RECURSIVE join_ranges(_)
join_ranges(ranges) ==
    IF ranges = <<>>
    THEN <<>>
    ELSE IF Len(ranges) = 1
         THEN ranges[1]
         ELSE ranges[1] \o <<",", " ">> \o join_ranges(Tail(ranges))

\* mutant: the pages are taken in the order given, duplicates included
format_page_ranges_unsorted(ps) ==
    IF ps = <<>>
    THEN <<>>
    ELSE join_ranges(page_loop(ps, 2, ps[1], ps[1], <<>>))

\* format_page_ranges, lines 76-102
format_page_ranges(ps) ==
    IF ps = <<>>
    THEN <<>>
    ELSE LET unique == sorted({ps[i] : i \in DOMAIN ps})
         IN join_ranges(page_loop(unique, 2, unique[1], unique[1], <<>>))

FormatPageRanges ==
    /\ pc = "pages"
    /\ pc' = "returned"
    /\ page_ranges' = format_page_ranges(pages)
    /\ UNCHANGED <<stdout, raised, reportVars, scriptVars, workerVars,
                   pipelineVars, credVars, configVars, chatVars, pages,
                   workflowVars>>

PageInit ==
    /\ pages \in PageLists
    /\ page_ranges = <<>>
    /\ pc = "pages"
    /\ stdout = <<>>
    /\ raised = ""
    /\ ReportIdle
    /\ ScriptIdle
    /\ WorkerIdle
    /\ PipelineIdle
    /\ CredIdle
    /\ ConfigIdle
    /\ ChatIdle
    /\ WorkflowIdle

PageNext == FormatPageRanges

PageSpec == PageInit /\ [][PageNext]_vars

\* reading the returned string: its entries, and the pages an entry names
RECURSIVE SplitEntries(_)
SplitEntries(s) ==
    IF s = <<>>
    THEN <<>>
    ELSE LET commas == {i \in DOMAIN s : s[i] = ","}
             cut == IF commas = {} THEN Len(s) + 1
                    ELSE CHOOSE i \in commas : \A j \in commas : i <= j
         IN <<SubSeq(s, 1, cut - 1)>>
            \o (IF cut > Len(s) THEN <<>>
                ELSE IF cut < Len(s) /\ s[cut + 1] = " "
                     THEN SplitEntries(SubSeq(s, cut + 2, Len(s)))
                     ELSE <<<<"?">>>>)

IsNumber(e) ==
    /\ e # <<>>
    /\ \A i \in DOMAIN e : \E d \in DOMAIN Digits : Digits[d] = e[i]
    /\ Len(e) > 1 => e[1] # "0"

RECURSIVE NumberOf(_)
NumberOf(e) ==
    IF e = <<>>
    THEN 0
    ELSE 10 * NumberOf(SubSeq(e, 1, Len(e) - 1))
         + (CHOOSE d \in 0..9 : Digits[d + 1] = e[Len(e)])

Dashes(e) == {i \in DOMAIN e : e[i] = "-"}
IsEntry(e) ==
    \/ IsNumber(e)
    \/ /\ Cardinality(Dashes(e)) = 1
       /\ LET i == CHOOSE i \in Dashes(e) : TRUE
          IN /\ IsNumber(SubSeq(e, 1, i - 1))
             /\ IsNumber(SubSeq(e, i + 1, Len(e)))
             /\ NumberOf(SubSeq(e, 1, i - 1)) < NumberOf(SubSeq(e, i + 1, Len(e)))
EntryLow(e) ==
    IF Dashes(e) = {} THEN NumberOf(e)
    ELSE NumberOf(SubSeq(e, 1, (CHOOSE i \in Dashes(e) : TRUE) - 1))
EntryHigh(e) ==
    IF Dashes(e) = {} THEN NumberOf(e)
    ELSE NumberOf(SubSeq(e, (CHOOSE i \in Dashes(e) : TRUE) + 1, Len(e)))

\* C22 (page ranges): format_page_ranges returns the empty string for an
\* empty list; otherwise its entries, separated by a comma and a space, are
\* single pages n or ranges a-b with a < b, in ascending order, neither
\* overlapping nor adjacent, and together they name exactly the pages of
\* the input, whatever its order and its duplicates.
C22_PageRanges ==
    pc = "returned" =>
        LET entries == SplitEntries(page_ranges)
        IN /\ pages = <<>> <=> page_ranges = <<>>
           /\ \A k \in DOMAIN entries : IsEntry(entries[k])
           /\ \A k \in DOMAIN entries :
                 k > 1 => EntryLow(entries[k]) > EntryHigh(entries[k - 1]) + 1
           /\ UNION {EntryLow(entries[k])..EntryHigh(entries[k]) : k \in DOMAIN entries}
                 = {pages[i] : i \in DOMAIN pages}

\* an unordered list with a duplicate gave a single page and a range
C22_Witness ==
    /\ pc = "returned"
    /\ pages = <<11, 10, 1, 10>>
    /\ page_ranges = <<"1", ",", " ", "1", "0", "-", "1", "1">>

\* the paths a result must list: one per flag that is true, in the order
\* the files are written
PathsOfFlags(r) ==
    (IF r.raw_saved THEN <<RAW_RESPONSE_TXT>> ELSE <<>>)
    \o (IF r.json_saved THEN <<CORRELATION_REPORT_JSON>> ELSE <<>>)
    \o (IF r.text_saved THEN <<CORRELATION_REPORT_TXT>> ELSE <<>>)

\* C28 (the result flags are consistent): whenever process_medical_response
\* returns, also after failed writes, success = (json_saved or text_saved),
\* json_saved and text_saved are not both true, and files_created holds
\* exactly one path for each true flag among raw_saved, json_saved and
\* text_saved; when the API response holds no AI text no flag is true, no
\* file is written, success is false and errors is not empty.
C28_ConsistentFlags ==
    pc = "returned" =>
        /\ results.success = (results.json_saved \/ results.text_saved)
        /\ ~(results.json_saved /\ results.text_saved)
        /\ results.files_created = PathsOfFlags(results)
        /\ ~Truthy(extract_ai_response(api_response))
              => /\ ~results.success
                 /\ ~results.raw_saved /\ ~results.json_saved /\ ~results.text_saved
                 /\ results.files_created = <<>>
                 /\ results.errors # <<>>
                 /\ raw_response_txt = NoFile
                 /\ correlation_report_json = NoFile
                 /\ correlation_report_txt = NoFile

\* the raw write failed and the text report was saved
C28_Witness ==
    /\ pc = "returned"
    /\ results.errors = <<"Failed to save raw response">>
    /\ results.text_saved
    /\ results.success
    /\ results.files_created = <<CORRELATION_REPORT_TXT>>

\* ---------------------------------------------------------------------
\* the __main__ block of SendToLLM.py, which process_medical_response
\* replaces
\* ---------------------------------------------------------------------

OutputFiles(raw, json, txt) ==
    [raw_response_txt |-> raw, correlation_report_json |-> json,
     correlation_report_txt |-> txt]

\* SendToLLM.py lines 612-633: the document found between the markers
main_markers(ai) ==
    LET json_start == Find(ai, JSON_START_MARKER, 0)
        json_end == Find(ai, JSON_END_MARKER, 0)
    IN IF json_start # -1 /\ json_end # -1
       THEN json_loads(Strip(Slice(ai, json_start + Len(JSON_START_MARKER),
                                   json_end)))
       ELSE Err("", 0)

\* SendToLLM.py lines 635-651: the document found from the first { to the
\* last }
main_fallback(ai) ==
    LET json_start == Find(ai, <<LBRACE>>, 0)
        json_end == RFind(ai, <<RBRACE>>) + 1
    IN IF json_start # -1 /\ json_end > json_start
       THEN json_loads(Slice(ai, json_start, json_end))
       ELSE Err("", 0)

\* SendToLLM.py lines 592-669: the output files the block leaves for an API
\* response when no write raises
main_block(r) ==
    IF ~(r.has_result /\ r.has_messages /\ Len(r.messages) > 0)
    THEN OutputFiles(NoFile, NoFile, NoFile)
    ELSE LET last == r.messages[Len(r.messages)]
             ai == IF last.has_text THEN last.text ELSE <<>>
             m == main_markers(ai)
             f == main_fallback(ai)
         IN IF m.ok
            THEN OutputFiles(File(ai), File(json_dumps(m.doc, 0)), NoFile)
            ELSE IF f.ok
            THEN OutputFiles(File(ai), File(json_dumps(f.doc, 0)), NoFile)
            ELSE OutputFiles(File(ai), NoFile, NoFile)

\* process_medical_response returned and none of its writes raised
ReturnedWithoutFailedWrite ==
    /\ pc = "returned"
    /\ \A i \in DOMAIN results.errors :
          results.errors[i] = "No AI response found in API response"

\* C27 (the legacy main reproduces the original main block): for every API
\* response, process_medical_response leaves the same output files with the
\* same contents as the __main__ block of SendToLLM.py.
C27_SameOutputFiles ==
    ReturnedWithoutFailedWrite
        => OutputFiles(raw_response_txt, correlation_report_json,
                       correlation_report_txt) = main_block(api_response)

\* the part of C27 that holds: when the JSON report is saved, the files
\* are those of the original
C27_SameWhenJsonSaved ==
    (ReturnedWithoutFailedWrite /\ results.json_saved)
        => OutputFiles(raw_response_txt, correlation_report_json,
                       correlation_report_txt) = main_block(api_response)

\* the brace strategy applied to the text the script read
BraceOnRawText == extract_json_fallback(Strip(raw_response_txt.content))

\* C23 (ordered strategy chain with fall-through): when the json fence of
\* scripts/extract_json.py finds a candidate that does not parse, the brace
\* strategy is still attempted on the original text, so the script fails
\* only when the brace strategy finds no parseable candidate either.
C23_FallThrough ==
    (/\ prog = SCRIPTS_EXTRACT_JSON
     /\ pc = "returned"
     /\ raw_response_txt.exists
     /\ ~json_data.ok)
        => ~(Truthy(BraceOnRawText) /\ json_loads(BraceOnRawText.content).ok)

\* the script gave up after the fence although the braces of the text hold
\* a document that parses, and that the known-defect rewrite leaves alone
C23_NoFallThrough ==
    /\ prog = SCRIPTS_EXTRACT_JSON
    /\ pc = "returned"
    /\ ret = "False"
    /\ report_json = NoFile
    /\ Contains(raw_response_txt.content, json_start_marker)
    /\ ~Contains(raw_response_txt.content, KnownDefect)
    /\ json_loads(BraceOnRawText.content).ok

\* the part of C23 that holds, for extract_json_report: the marker step
\* runs first and the brace step only after it gave nothing that parses,
\* each on the original text; failure is returned only after both
C23_ReportChain ==
    /\ \A i \in DOMAIN attempts : attempts[i].text = response_text
    /\ Len(attempts) <= 2
    /\ Len(attempts) >= 1 => attempts[1].step = "markers"
    /\ Len(attempts) = 2
          => /\ attempts[2].step = "fallback"
             /\ ~(attempts[1].found /\ json_loads(attempts[1].content).ok)
    /\ (pc = "done" /\ ~result.success) => Len(attempts) = 2
    /\ (pc = "done" /\ result.method = "markers") => Len(attempts) = 1

\* ---------------------------------------------------------------------
\* the medical workflow: legacy/medical_workflow.py with
\* legacy/file_operations.py, and the functions of SendToLLM.py they replace
\* ---------------------------------------------------------------------

AttachmentKeys == <<"keyword_search", "vector_search", "correlation_report">>
KeySet == {AttachmentKeys[i] : i \in DOMAIN AttachmentKeys}

\* a file of the directory is missing, present and loadable, or present
\* and not loadable (a read error, or JSON that does not parse)
FileStates == {"missing", "present", "unreadable"}
Directories ==
    [exists : BOOLEAN, prompt : BOOLEAN, files : [KeySet -> FileStates]]

\* the text a loaded file gives
FileText ==
    [k \in KeySet |->
        CASE k = "keyword_search" -> "keyword search results"
          [] k = "vector_search" -> "vector search results"
          [] k = "correlation_report" -> "correlation report template"]

\* validate_attachments_directory, file_operations.py lines 89-149 and
\* SendToLLM.py lines 332-360: which of the three files exist
validate_attachments_directory(dir) ==
    [k \in KeySet |-> dir.files[k] # "missing"]

\* the loading loops, file_operations.py lines 166-190, medical_workflow.py
\* lines 229-243 and SendToLLM.py lines 399-423 and 530-545: the content of
\* a file, None when it is missing or could not be loaded
load_medical_files(dir) ==
    LET file_status == validate_attachments_directory(dir)
    IN [k \in KeySet |->
           IF file_status[k] /\ dir.files[k] = "present"
           THEN FileText[k] ELSE Unset]

\* the section of a file in the comprehensive message
FileSection(content) ==
    IF content # Unset THEN <<"### filename", FENCE, content, FENCE>> ELSE <<>>

\* build_comprehensive_message, medical_workflow.py lines 19-88, and
\* SendToLLM.py lines 426-480: the parts of the message
build_comprehensive_message(attachments_content) ==
    <<"# Medical PDF-DICOM Correlation Analysis", "## Instructions:", "prompt",
      "## Attached Files:">>
    \o FileSection(attachments_content["keyword_search"])
    \o FileSection(attachments_content["vector_search"])
    \o FileSection(attachments_content["correlation_report"])
    \o <<"---", "CRITICAL: Split into TWO separate sections",
         "JSON_REPORT_START", "JSON_REPORT_END">>

\* the parts of the legacy-style message before they are put together,
\* medical_workflow.py lines 103-120 and SendToLLM.py lines 554-569: a
\* search result that is None is replaced by a sentence; the key
\* correlation_report is always present, so its default is never used
legacy_message_parts(attachments_data) ==
    <<"prompt", "ATTACHED DATA:", "1. KEYWORD SEARCH RESULTS:",
      IF attachments_data["keyword_search"] # Unset
      THEN attachments_data["keyword_search"]
      ELSE "No keyword search data available",
      "2. VECTOR SEARCH RESULTS:",
      IF attachments_data["vector_search"] # Unset
      THEN attachments_data["vector_search"]
      ELSE "No vector search data available",
      "3. CORRELATION REPORT TEMPLATE:",
      attachments_data["correlation_report"],
      "Please generate the correlation reports">>

\* an f-string of SendToLLM.py lines 554-569: None is written as "None"
FormatParts(parts) ==
    Returns([i \in DOMAIN parts |-> IF parts[i] = Unset THEN "None" ELSE parts[i]])

\* build_legacy_message, medical_workflow.py lines 91-122: "\n".join raises
\* TypeError when a part is None
build_legacy_message(attachments_data) ==
    LET parts == legacy_message_parts(attachments_data)
    IN IF \E i \in DOMAIN parts : parts[i] = Unset
       THEN [raised |-> "TypeError", value |-> <<>>]
       ELSE Returns(parts)

\* what a workflow call gives: the exception it raised and the message it
\* posted, <<>> when no request was made
WorkflowOutcome(exception, posted) == [raised |-> exception, posted |-> posted]

\* the part common to the four functions: the directory and the prompt
\* file are checked, the message is built and posted
Workflow(dir, message, reply) ==
    IF ~dir.exists THEN WorkflowOutcome("FileNotFoundError", <<>>)
    ELSE IF ~dir.prompt THEN WorkflowOutcome("FileNotFoundError", <<>>)
    ELSE IF message.raised # "" THEN WorkflowOutcome(message.raised, <<>>)
    ELSE IF reply = "RequestException"
    THEN WorkflowOutcome("Exception", message.value)
    ELSE WorkflowOutcome("", message.value)

\* MedicalWorkflow.send_medical_correlation_data_with_attachments,
\* medical_workflow.py lines 136-194
legacy_send_with_attachments(dir, reply) ==
    Workflow(dir, Returns(build_comprehensive_message(load_medical_files(dir))),
             reply)

\* MedicalWorkflow.send_medical_correlation_data_to_llm, medical_workflow.py
\* lines 196-268
legacy_send_to_llm(dir, reply) ==
    Workflow(dir, build_legacy_message(load_medical_files(dir)), reply)

\* send_medical_correlation_data_with_attachments, SendToLLM.py lines 362-492
send_with_attachments(dir, reply) ==
    Workflow(dir, Returns(build_comprehensive_message(load_medical_files(dir))),
             reply)

\* send_medical_correlation_data_to_llm, SendToLLM.py lines 494-578
send_to_llm(dir, reply) ==
    Workflow(dir, FormatParts(legacy_message_parts(load_medical_files(dir))),
             reply)

WorkflowCall(package, fn, o) ==
    /\ workflow_call' = [package |-> package, fn |-> fn, raised |-> o.raised,
                         posted |-> o.posted]
    /\ UNCHANGED <<pc, stdout, raised, reportVars, scriptVars, workerVars,
                   pipelineVars, credVars, configVars, chatVars, pageVars,
                   directory>>

LegacySendWithAttachments(reply) ==
    WorkflowCall("legacy", "send_medical_correlation_data_with_attachments",
                 legacy_send_with_attachments(directory, reply))

LegacySendToLlm(reply) ==
    WorkflowCall("legacy", "send_medical_correlation_data_to_llm",
                 legacy_send_to_llm(directory, reply))

SendWithAttachments(reply) ==
    WorkflowCall("original", "send_medical_correlation_data_with_attachments",
                 send_with_attachments(directory, reply))

SendToLlm(reply) ==
    WorkflowCall("original", "send_medical_correlation_data_to_llm",
                 send_to_llm(directory, reply))

WorkflowInit ==
    /\ directory \in Directories
    /\ workflow_call = [package |-> "", fn |-> "", raised |-> "", posted |-> <<>>]
    /\ pc = "workflow"
    /\ stdout = <<>>
    /\ raised = ""
    /\ ReportIdle
    /\ ScriptIdle
    /\ WorkerIdle
    /\ PipelineIdle
    /\ CredIdle
    /\ ConfigIdle
    /\ ChatIdle
    /\ PageIdle

WorkflowNext ==
    \E reply \in {"answer", "RequestException"} :
        \/ LegacySendWithAttachments(reply)
        \/ LegacySendToLlm(reply)
        \/ SendWithAttachments(reply)
        \/ SendToLlm(reply)

WorkflowSpec == WorkflowInit /\ [][WorkflowNext]_vars

\* C30 (missing attachments are tolerated): when the attachments directory
\* and the prompt file exist, each of the two functions, in the legacy
\* package as in SendToLLM.py, skips the missing files, builds the message
\* and posts it, whichever of the three attachment files are present.
C30_MissingFilesTolerated ==
    (/\ workflow_call.fn # ""
     /\ directory.exists
     /\ directory.prompt
     /\ \A k \in KeySet : directory.files[k] \in {"missing", "present"})
        => /\ workflow_call.posted # <<>>
           /\ workflow_call.raised \in {"", "Exception"}
           /\ \A k \in KeySet :
                 (\E i \in DOMAIN workflow_call.posted :
                      workflow_call.posted[i] = FileText[k])
                     <=> directory.files[k] = "present"

\* the part of C30 that holds: the functions of SendToLLM.py and the legacy
\* send_medical_correlation_data_with_attachments always post the message
C30_ToleratedElsewhere ==
    (/\ workflow_call.fn # ""
     /\ directory.exists
     /\ directory.prompt
     /\ ~(workflow_call.package = "legacy"
          /\ workflow_call.fn = "send_medical_correlation_data_to_llm"))
        => workflow_call.posted # <<>>

\* the legacy send_medical_correlation_data_to_llm raised TypeError because
\* the correlation report is missing
C30_LegacyRaises ==
    /\ workflow_call.package = "legacy"
    /\ workflow_call.fn = "send_medical_correlation_data_to_llm"
    /\ directory.files["correlation_report"] = "missing"
    /\ directory.files["keyword_search"] = "present"
    /\ workflow_call.raised = "TypeError"
    /\ workflow_call.posted = <<>>

====
